---- MODULE Spec2Model ----
(***************************************************************************)
(* Model of the candidate ranking and interview-scheduling pipeline of     *)
(* Hire-Ai: CandidateRanker (services/candidate_ranker.py), ResumeParser   *)
(* (services/resume_parser.py), ResumeAnalyzer                             *)
(* (services/resume_analyzer.py), CalendarScheduler                        *)
(* (services/calendar_scheduler.py), EmailDraftService                     *)
(* (services/email_service.py) and the HRAgent orchestrator                *)
(* (agents/hr_agent.py).                                                   *)
(*                                                                         *)
(* Python values whose type the code does not fix (fields of the oracle's  *)
(* JSON, fields of an analysis dict) are records [t |-> type, v |-> value].*)
(* A Python dict is a TLA+ function whose DOMAIN is the set of keys that   *)
(* are present.  Times are minutes since an epoch that is a Monday 00:00.  *)
(***************************************************************************)
EXTENDS Integers, Sequences, FiniteSets, TLC

VARIABLES
    \* ---- CandidateRanker.rank_candidates, called on its own
    rankPc,         \* "start" | "done"
    rankIn,         \* the list handed to rank_candidates
    rankOut,        \* the list it returned
    \* ---- HRAgent.process_resumes
    batchPc,        \* "idle" | "loop" | "done" | "raised"
    resumeFiles,    \* the documents of the batch
    fileIdx,        \* position of the for loop over resume_files
    analyses,       \* the analyses list built by the loop
    oracleCalls,    \* log: the documents the analyzer was called for, and whether
                    \* the LLM call failed
    batchResult,    \* the dict process_resumes returned
    \* ---- HRAgent.select_and_schedule_interviews and the CalendarScheduler behind it
    schedPc,        \* "off" | "idle" | "loop" | "done"
    jobTitle,       \* argument job_title
    pool,           \* argument candidates
    candidateIds,   \* argument candidate_ids
    startDate,      \* start_date after the default was applied
    selected,       \* selected_candidates
    selIdx,         \* position of the for loop over selected_candidates
    scheduled,      \* the scheduled list
    emailDrafts,    \* the email_drafts list
    schedStatus,    \* 'status' of the returned dict ("" while running)
    bookings,       \* log: the schedule_interview requests of the current call
    service,        \* CalendarScheduler.service is set (authenticated)
    calendar,       \* the events held by the external calendar
    \* ---- CandidateRanker.select_top_candidates and categorize_candidates
    toolPc,         \* "off" | "start" | "selected" | "categorized" | "raised"
    rankedCandidates,   \* argument ranked_candidates
    maxCandidates,      \* argument max_candidates
    minScoreThreshold,  \* argument min_score_threshold
    topOut,         \* the list select_top_candidates returned
    tiersOut,       \* the dict categorize_candidates returned
    \* ---- HRAgent.send_confirmations and the EmailDraftService behind it
    sendPc,         \* "off" | "loop" | "done" | "raised"
    smtpConfig,     \* EmailDraftService.smtp_config is set
    drafts,         \* argument email_drafts
    draftIdx,       \* position of the for loop over email_drafts
    sent,           \* the sent list
    failed,         \* the failed list
    mailerCalls,    \* log: the send_email calls and what they met
    sendResult,     \* the dict send_confirmations returned
    \* ---- CalendarScheduler.find_available_slots
    availPc,        \* "off" | "idle" | "loop" | "done"
    availStart,     \* argument start_date
    availEnd,       \* argument end_date
    workingHours,   \* argument working_hours
    durationMinutes,    \* argument duration_minutes
    currentDate,    \* current_date of the while loop
    availableSlots, \* available_slots
    slotQueries,    \* log: the events().list requests and what they met
    availResult,    \* the list find_available_slots returned
    credentialsOk,  \* authenticate() would return True during the current call
    \* ---- the module-level HRAgent of the router
    calls,          \* the number of earlier invocations on this agent
    \* ---- the /rank-candidates endpoint
    epPc,           \* "off" | "start" | "done"
    epCandidates,   \* the submitted Candidate objects
    epRanked,       \* 'ranked_candidates' of the response
    epSummary,      \* 'summary' of the response
    \* ---- CalendarScheduler.schedule_multiple_interviews and cancel_interview
    calPc,          \* "off" | "idle" | "loop" | "done"
    calCandidates,  \* argument candidates
    calDuration,    \* argument duration_minutes
    calIdx,         \* position of the for loop over candidates
    calCurrentDate, \* current_date
    calScheduled,   \* the scheduled list
    calReturn       \* the value the method returned

rankVars  == <<rankPc, rankIn, rankOut>>
batchVars == <<batchPc, resumeFiles, fileIdx, analyses, oracleCalls, batchResult>>
schedCallVars == <<schedPc, jobTitle, pool, candidateIds, startDate, selected, selIdx,
                   scheduled, emailDrafts, schedStatus, bookings>>
schedVars == <<schedCallVars, service, calendar>>
toolVars  == <<toolPc, rankedCandidates, maxCandidates, minScoreThreshold, topOut,
               tiersOut>>
sendVars  == <<sendPc, smtpConfig, drafts, draftIdx, sent, failed, mailerCalls,
               sendResult>>
availVars == <<availPc, availStart, availEnd, workingHours, durationMinutes, currentDate,
               availableSlots, slotQueries, availResult, credentialsOk>>
sessionVars == <<calls>>
endpointVars == <<epPc, epCandidates, epRanked, epSummary>>
calMethodVars == <<calPc, calCandidates, calDuration, calIdx, calCurrentDate,
                   calScheduled, calReturn>>
vars == <<rankVars, batchVars, schedVars, toolVars, sendVars, availVars, sessionVars,
          endpointVars, calMethodVars>>

\* The variables an operation of one group leaves alone.
notRankVars  == <<batchVars, schedVars, toolVars, sendVars, availVars, sessionVars,
                  endpointVars, calMethodVars>>
notBatchVars == <<rankVars, schedVars, toolVars, sendVars, availVars, sessionVars,
                  endpointVars, calMethodVars>>
notSchedVars == <<rankVars, batchVars, toolVars, sendVars, availVars, sessionVars,
                  endpointVars, calMethodVars>>
notToolVars  == <<rankVars, batchVars, schedVars, sendVars, availVars, sessionVars,
                  endpointVars, calMethodVars>>
notSendVars  == <<rankVars, batchVars, schedVars, toolVars, availVars, sessionVars,
                  endpointVars, calMethodVars>>
notAvailVars == <<rankVars, batchVars, schedCallVars, toolVars, sendVars, sessionVars,
                  endpointVars, calMethodVars>>
notEndpointVars == <<rankVars, batchVars, schedVars, toolVars, sendVars, availVars,
                     sessionVars, calMethodVars>>
notCalMethodVars == <<rankVars, batchVars, schedCallVars, toolVars, sendVars, availVars,
                      endpointVars>>

----------------------------------------------------------------------------
(* Bounds of the model. *)

\* Longest list handed to rank_candidates on its own.
MaxRank == 3
\* Most documents in one batch.
MaxDocs == 3
\* Most candidates in the pool handed to select_and_schedule_interviews.
MaxPool == 3

(* Program constants. *)

\* timedelta(hours=1) and timedelta(days=1), in minutes.
MinutesPerHour == 60
MinutesPerDay == 1440
\* settings.interview_duration_minutes
InterviewDurationMinutes == 60

----------------------------------------------------------------------------
(* Python values. *)

PyInt(n)  == [t |-> "int", v |-> n]
PyStr(s)  == [t |-> "str", v |-> s]
PyList(s) == [t |-> "list", v |-> s]
PyNone    == [t |-> "NoneType", v |-> "None"]

\* Sequences over S of length at most n.
SeqUpTo(S, n) == UNION {[1..k -> S] : k \in 0..n}

\* dict.get(key, default)
DictGet(d, key, default) == IF key \in DOMAIN d THEN d[key] ELSE default

----------------------------------------------------------------------------
(* CandidateRanker.rank_candidates *)

ScoreFields == {"overall_score", "skill_score", "experience_score"}

\* Unary minus is defined on numbers only: -x raises TypeError on a str or None.
CanNegate(x) == x.t = "int"

\* The lambda of rank_candidates can be evaluated on x.
KeyDefined(x) == \A f \in ScoreFields : CanNegate(DictGet(x, f, PyInt(0)))

\* key=lambda x: (-overall_score, -skill_score, -experience_score), 0 for a missing field
SortKey(x) == << -(DictGet(x, "overall_score", PyInt(0)).v),
                 -(DictGet(x, "skill_score", PyInt(0)).v),
                 -(DictGet(x, "experience_score", PyInt(0)).v) >>

\* Python's < on tuples of three numbers.
TupleLess(a, b) ==
    \/ a[1] < b[1]
    \/ a[1] = b[1] /\ a[2] < b[2]
    \/ a[1] = b[1] /\ a[2] = b[2] /\ a[3] < b[3]

\* Insert x into the key-sorted list s behind every element whose key is not
\* greater: the place a stable sort gives to an element that came later.
RECURSIVE InsertStable(_, _)
InsertStable(s, x) ==
    IF s = <<>> THEN <<x>>
    ELSE IF TupleLess(SortKey(x), SortKey(Head(s)))
         THEN <<x>> \o s
         ELSE <<Head(s)>> \o InsertStable(Tail(s), x)

\* A mutant of InsertStable: ties are broken the other way round.
RECURSIVE InsertUnstable(_, _)
InsertUnstable(s, x) ==
    IF s = <<>> THEN <<x>>
    ELSE IF ~TupleLess(SortKey(Head(s)), SortKey(x))
         THEN <<x>> \o s
         ELSE <<Head(s)>> \o InsertUnstable(Tail(s), x)

\* sorted(analyses, key=...): ascending in the key, stable.
RECURSIVE SortedByKey(_)
SortedByKey(s) ==
    IF s = <<>> THEN <<>>
    ELSE InsertStable(SortedByKey(SubSeq(s, 1, Len(s) - 1)), s[Len(s)])

\* A mutant of rank_candidates: the sort that does not keep the order of ties.
RECURSIVE SortedUnstable(_)
SortedUnstable(s) ==
    IF s = <<>> THEN <<>>
    ELSE InsertUnstable(SortedUnstable(SubSeq(s, 1, Len(s) - 1)), s[Len(s)])

RankUnstable(list) ==
    IF \A i \in 1..Len(list) : KeyDefined(list[i])
    THEN SortedUnstable(list)
    ELSE list

\* A mutant of rank_candidates: the elements whose key cannot be computed are left
\* out and the others sorted.
RankSkippingUnsortable(list) == SortedByKey(SelectSeq(list, KeyDefined))

\* rank_candidates: the sorted list, or the input itself when computing a key raised.
rank_candidates(list) ==
    IF \A i \in 1..Len(list) : KeyDefined(list[i])
    THEN SortedByKey(list)
    ELSE list

\* A mutant of AnalysesAfterRank: the list is sorted in place (analyses.sort).
AnalysesSortedInPlace(list) == rank_candidates(list)

\* The argument list after the call: sorted() builds a new list and x.get() adds no
\* key, so the list and its dicts are as they were.
AnalysesAfterRank(list) == list

----------------------------------------------------------------------------
(* rank_candidates called on its own. *)

\* An analysis dict with the three scores a, b, c.
Analysis(name, a, b, c) ==
    [candidate_name |-> PyStr(name), overall_score |-> a, skill_score |-> b,
     experience_score |-> c]

\* The same dict without the key f.
Without(d, f) == [k \in (DOMAIN d) \ {f} |-> d[k]]

\* The analyses the lists are drawn from: ties on all three keys (Ann, Bob), ties on
\* a prefix of the key, a missing score and scores that are not numbers.
RankUniverse ==
    { Analysis("Ann", PyInt(90), PyInt(50), PyInt(50)),
      Analysis("Bob", PyInt(90), PyInt(50), PyInt(50)),
      Analysis("Cy",  PyInt(90), PyInt(70), PyInt(10)),
      Analysis("Di",  PyInt(90), PyInt(50), PyInt(80)),
      Analysis("Ed",  PyInt(60), PyInt(80), PyInt(20)),
      Analysis("Flo", PyInt(0),  PyInt(0),  PyInt(70)),
      Without(Analysis("Gus", PyInt(0), PyInt(0), PyInt(70)), "overall_score"),
      Analysis("Hal", PyStr("high"), PyInt(50), PyInt(50)),
      Analysis("Ida", PyInt(60), PyNone, PyInt(50)) }

RankIdle == rankPc = "idle" /\ rankIn = <<>> /\ rankOut = <<>>

RankInit ==
    /\ rankPc = "start"
    /\ rankIn \in SeqUpTo(RankUniverse, MaxRank)
    /\ rankOut = <<>>

RankCall ==
    /\ rankPc = "start"
    /\ rankOut' = rank_candidates(rankIn)
    /\ rankPc' = "done"
    /\ rankIn' = AnalysesAfterRank(rankIn)
    /\ UNCHANGED notRankVars

RankNext == RankCall

----------------------------------------------------------------------------
(* CandidateRanker.categorize_candidates and generate_ranking_summary, on lists
   whose overall_score is a number (the lists process_resumes hands them). *)

\* A mutant of TierOf: the band boundaries are exclusive.
TierOfStrict(x) ==
    LET score == DictGet(x, "overall_score", PyInt(0)).v
    IN  IF score > 80 THEN "top_tier"
        ELSE IF score > 60 THEN "mid_tier"
        ELSE IF score > 40 THEN "low_tier"
        ELSE "not_recommended"

\* The if/elif chain of categorize_candidates.
TierOf(x) ==
    LET score == DictGet(x, "overall_score", PyInt(0)).v
    IN  IF score >= 80 THEN "top_tier"
        ELSE IF score >= 60 THEN "mid_tier"
        ELSE IF score >= 40 THEN "low_tier"
        ELSE "not_recommended"

SelectTier(list, tier) == SelectSeq(list, LAMBDA x : TierOf(x) = tier)

categorize_candidates(list) ==
    [top_tier |-> SelectTier(list, "top_tier"),
     mid_tier |-> SelectTier(list, "mid_tier"),
     low_tier |-> SelectTier(list, "low_tier"),
     not_recommended |-> SelectTier(list, "not_recommended")]

\* The numbers and names generate_ranking_summary prints, or its sentinel text.
generate_ranking_summary(list) ==
    IF Len(list) = 0 THEN [text |-> "No candidates to summarize."]
    ELSE LET categories == categorize_candidates(list)
             head == SubSeq(list, 1, IF Len(list) < 3 THEN Len(list) ELSE 3)
         IN  [text |-> "Ranking Summary",
              total |-> Len(list),
              top_tier |-> Len(categories.top_tier),
              mid_tier |-> Len(categories.mid_tier),
              low_tier |-> Len(categories.low_tier),
              not_recommended |-> Len(categories.not_recommended),
              top3 |-> [i \in 1..Len(head) |->
                          <<DictGet(head[i], "candidate_name", PyStr("Unknown")),
                            DictGet(head[i], "overall_score", PyInt(0))>>]]

----------------------------------------------------------------------------
(* ResumeParser *)

\* A text as the parser sees it: the length of text.strip(), how many of those
\* characters are not whitespace, and how many of the 13 keywords occur in it.
Text(stripLen, nonWs, keywords) ==
    [stripLen |-> stripLen, nonWs |-> nonWs, keywords |-> keywords]

\* _extract_with_pdfplumber and _extract_with_pypdf2 return "" when the library raises.
EmptyText == Text(0, 0, 0)

\* A mutant of Sufficient: a text of exactly 100 characters is sufficient.
SufficientAt100(text) == text.stripLen >= 100

\* if text and len(text.strip()) > 100
Sufficient(text) == text.stripLen > 100

\* extract_text_from_pdf: pdfplumber first, PyPDF2 as the fallback, else None.
extract_text_from_pdf(file) ==
    IF Sufficient(file.pdfplumber) THEN [some |-> TRUE, text |-> file.pdfplumber]
    ELSE IF Sufficient(file.pypdf2) THEN [some |-> TRUE, text |-> file.pypdf2]
    ELSE [some |-> FALSE, text |-> EmptyText]

\* validate_resume
validate_resume(text) ==
    IF text.stripLen < 100 THEN FALSE
    ELSE text.keywords >= 2

\* A mutant of SkipsResume: the validity check is left out.
SkipsResumeUnvalidated(file) == ~extract_text_from_pdf(file).some

\* if not resume_text or not validate_resume(resume_text): continue
SkipsResume(file) ==
    LET resume_text == extract_text_from_pdf(file)
    IN  ~resume_text.some \/ ~validate_resume(resume_text.text)

----------------------------------------------------------------------------
(* ResumeAnalyzer *)

\* The strings int() parses, among those the model draws.
DecimalStrings == ("85" :> 85)

\* int(x) raises (TypeError on None or a list, ValueError on a str that is no numeral).
IntRaises(x) ==
    CASE x.t = "int" -> FALSE
      [] x.t = "str" -> x.v \notin DOMAIN DecimalStrings
      [] OTHER -> TRUE

\* int(x), where it is defined.
IntOf(x) == IF x.t = "int" THEN x.v ELSE DecimalStrings[x.v]

Max2(a, b) == IF a >= b THEN a ELSE b
Min2(a, b) == IF a <= b THEN a ELSE b

\* A mutant of ClampScore: the value is converted but not clamped.
ClampScoreUnclamped(result, field) == PyInt(IntOf(DictGet(result, field, PyInt(50))))

\* min(100, max(0, int(result.get(field, 50))))
ClampScore(result, field) ==
    PyInt(Min2(100, Max2(0, IntOf(DictGet(result, field, PyInt(50))))))

\* _normalize_analysis_result raises: one of the three int() calls does.
NormalizeRaises(result) ==
    \E f \in ScoreFields : IntRaises(DictGet(result, f, PyInt(50)))

_normalize_analysis_result(result) ==
    [candidate_name |-> DictGet(result, "candidate_name", PyStr("Unknown")),
     email |-> DictGet(result, "email", PyStr("")),
     phone |-> DictGet(result, "phone", PyStr("")),
     overall_score |-> ClampScore(result, "overall_score"),
     skill_score |-> ClampScore(result, "skill_score"),
     experience_score |-> ClampScore(result, "experience_score"),
     matched_skills |-> DictGet(result, "matched_skills", PyList(<<>>)),
     missing_skills |-> DictGet(result, "missing_skills", PyList(<<>>)),
     years_of_experience |-> DictGet(result, "years_of_experience", PyStr("Unknown")),
     summary |-> DictGet(result, "summary", PyStr("No summary available")),
     match_reasoning |-> DictGet(result, "match_reasoning", PyStr("")),
     strengths |-> DictGet(result, "strengths", PyList(<<>>)),
     areas_for_improvement |-> DictGet(result, "areas_for_improvement", PyList(<<>>))]

_get_default_analysis ==
    [candidate_name |-> PyStr("Unknown"),
     email |-> PyStr(""),
     phone |-> PyStr(""),
     overall_score |-> PyInt(0),
     skill_score |-> PyInt(0),
     experience_score |-> PyInt(0),
     matched_skills |-> PyList(<<>>),
     missing_skills |-> PyList(<<>>),
     years_of_experience |-> PyStr("Unknown"),
     summary |-> PyStr("Analysis failed"),
     match_reasoning |-> PyStr("Unable to analyze this resume due to an error"),
     strengths |-> PyList(<<>>),
     areas_for_improvement |-> PyList(<<>>)]

\* What the LLM API did with one request:
\*   "api_error"  client.chat.completions.create raised
\*   "empty"      the message content is None or ""
\*   "bad_json"   json.loads(content) raised
\*   "not_dict"   the content is JSON but no object (result.get raises AttributeError)
\*   "json"       the content is the JSON object `result`
OracleFailed(response) ==
    \/ response.kind \in {"api_error", "empty", "bad_json", "not_dict"}
    \/ response.kind = "json" /\ NormalizeRaises(response.result)

\* A mutant of analyze_resume: a failure of the oracle escapes as an exception, which
\* process_resumes catches to skip the document.  [raised |-> TRUE] stands for it.
AnalyzeResumeRaising(response) ==
    IF OracleFailed(response)
    THEN [raised |-> TRUE, analysis |-> _get_default_analysis]
    ELSE [raised |-> FALSE, analysis |-> _normalize_analysis_result(response.result)]

\* analyze_resume: every failure is caught and answered with the default analysis.
analyze_resume(response) ==
    IF OracleFailed(response)
    THEN [raised |-> FALSE, analysis |-> _get_default_analysis]
    ELSE [raised |-> FALSE, analysis |-> _normalize_analysis_result(response.result)]

----------------------------------------------------------------------------
(* HRAgent.process_resumes *)

\* What the two PDF libraries get out of a file.
\* A document: its path, held as the pieces between the backslashes of the string,
\* and what the two extractors read from it.
File(path, plumberText, pypdf2Text) ==
    [path |-> path, pdfplumber |-> plumberText, pypdf2 |-> pypdf2Text]

\* resume_file.split('\\')[-1]: what follows the last backslash of the path.
LastPiece(path) == path[Len(path)]

\* The documents a batch is drawn from.
DocUniverse ==
    { File(<<"C:", "uploads", "good.pdf">>, Text(500, 430, 3), Text(500, 430, 3)),
      File(<<"uploads/fallback.pdf">>, EmptyText, Text(300, 260, 2)),
      File(<<"scan.pdf">>, EmptyText, EmptyText),
      File(<<"up", "hundred.pdf">>, Text(100, 100, 2), Text(100, 100, 2)),
      File(<<"spaced.pdf">>, Text(120, 90, 2), Text(120, 90, 2)),
      File(<<"novel.pdf">>, Text(900, 800, 1), EmptyText) }

Response(kind, result) == [kind |-> kind, result |-> result]

EmptyDict == [k \in {} |-> PyNone]

FullResult(name, overall, skill, experience) ==
    [candidate_name |-> name,
     email |-> PyStr("ann@example.org"),
     phone |-> PyStr("555-0100"),
     overall_score |-> overall,
     skill_score |-> skill,
     experience_score |-> experience,
     matched_skills |-> PyList(<<PyStr("python")>>),
     missing_skills |-> PyList(<<PyStr("go")>>),
     years_of_experience |-> PyStr("5 years"),
     summary |-> PyStr("Solid engineer"),
     match_reasoning |-> PyStr("Matches the stack"),
     strengths |-> PyList(<<PyStr("testing")>>),
     areas_for_improvement |-> PyList(<<>>)]

\* The answers of the LLM API the model draws from.
OracleUniverse ==
    { Response("api_error", EmptyDict),
      Response("empty", EmptyDict),
      Response("bad_json", EmptyDict),
      Response("not_dict", EmptyDict),
      Response("json", FullResult(PyStr("Ann"), PyInt(85), PyInt(70), PyInt(60))),
      Response("json", FullResult(PyStr("Bob"), PyInt(85), PyInt(90), PyInt(60))),
      Response("json", FullResult(PyStr("Cy"), PyInt(150), PyInt(-5), PyStr("85"))),
      Response("json", FullResult(PyStr("Di"), PyStr("high"), PyInt(70), PyInt(60))),
      Response("json", FullResult(PyStr("Ed"), PyInt(40), PyNone, PyInt(60))),
      Response("json", FullResult(PyNone, PyInt(70), PyInt(70), PyInt(60))),
      Response("json", [candidate_name |-> PyStr("Flo")]),
      Response("json", [candidate_name |-> PyStr("Gus"), summary |-> PyNone,
                        matched_skills |-> PyNone, strengths |-> PyNone]),
      Response("json", [candidate_name |-> PyStr("Hal"), overall_score |-> PyInt(30),
                        years_of_experience |-> PyInt(5)]),
      Response("json", [candidate_name |-> PyStr("Ivy"), overall_score |-> PyInt(85),
                        matched_skills |-> PyList(<<PyInt(1), PyInt(2)>>)]) }

\* str(uuid.uuid4()): a fresh identifier; n tells the identifiers of one batch apart.
Uuid(kind, n) == [t |-> "str", v |-> <<kind, n>>]

\* The four keys process_resumes adds to the analysis of the document at position i.
WithMetadata(analysis, file, i) ==
    [k \in DOMAIN analysis \cup {"resume_id", "candidate_id", "filename", "job_id"} |->
        CASE k = "resume_id" -> Uuid("resume", i)
          [] k = "candidate_id" -> Uuid("candidate", i)
          [] k = "filename" -> PyStr(LastPiece(file.path))
          [] k = "job_id" -> Uuid("job", 0)
          [] OTHER -> analysis[k]]

\* pydantic refuses the value for a field declared str.
NotStr(x) == x.t # "str"
\* pydantic refuses the value for a field declared Optional[str].
NotOptionalStr(x) == x.t \notin {"str", "NoneType"}

\* The float pydantic makes of a value for `score: float`, where it makes one: a
\* number as it is, a bool as 1 or 0, a str that is a numeral as its value.
FloatOf(x) ==
    CASE x.t = "int" -> x.v
      [] x.t = "bool" -> IF x.v THEN 1 ELSE 0
      [] OTHER -> DecimalStrings[x.v]

\* Candidate(...) raises: a KeyError of analysis[...] or pydantic's ValidationError
\* (a str field given no str, a score that is no number, bool or numeral or lies
\* outside 0..100, skills that is no list of str).
CandidateRaises(analysis) ==
    \/ \E k \in {"candidate_id", "candidate_name", "resume_id", "overall_score",
                 "summary", "match_reasoning"} : k \notin DOMAIN analysis
    \/ NotStr(analysis.candidate_id)
    \/ NotStr(analysis.candidate_name)
    \/ NotOptionalStr(DictGet(analysis, "email", PyStr("")))
    \/ NotOptionalStr(DictGet(analysis, "phone", PyStr("")))
    \/ NotStr(analysis.resume_id)
    \/ analysis.overall_score.t \notin {"int", "bool", "str"}
    \/ /\ analysis.overall_score.t = "str"
       /\ analysis.overall_score.v \notin DOMAIN DecimalStrings
    \/ FloatOf(analysis.overall_score) < 0
    \/ FloatOf(analysis.overall_score) > 100
    \/ NotStr(analysis.summary)
    \/ DictGet(analysis, "matched_skills", PyList(<<>>)).t # "list"
    \/ \E i \in 1..Len(DictGet(analysis, "matched_skills", PyList(<<>>)).v) :
          NotStr(DictGet(analysis, "matched_skills", PyList(<<>>)).v[i])
    \/ NotStr(DictGet(analysis, "years_of_experience", PyStr("")))
    \/ NotStr(analysis.match_reasoning)

\* A mutant of CandidateOf: the score is taken from skill_score.
CandidateOfSkillScore(analysis) ==
    [id |-> analysis.candidate_id.v,
     name |-> analysis.candidate_name.v,
     email |-> DictGet(analysis, "email", PyStr("")),
     phone |-> DictGet(analysis, "phone", PyStr("")),
     resume_id |-> analysis.resume_id.v,
     score |-> FloatOf(analysis.skill_score),
     summary |-> analysis.summary.v,
     skills |-> [i \in 1..Len(DictGet(analysis, "matched_skills", PyList(<<>>)).v) |->
                   DictGet(analysis, "matched_skills", PyList(<<>>)).v[i].v],
     experience |-> DictGet(analysis, "years_of_experience", PyStr("")).v,
     match_reasoning |-> analysis.match_reasoning.v,
     interview_date |-> PyNone,
     interview_link |-> PyNone]

\* Candidate(...).dict()
CandidateOf(analysis) ==
    [id |-> analysis.candidate_id.v,
     name |-> analysis.candidate_name.v,
     email |-> DictGet(analysis, "email", PyStr("")),
     phone |-> DictGet(analysis, "phone", PyStr("")),
     resume_id |-> analysis.resume_id.v,
     score |-> FloatOf(analysis.overall_score),
     summary |-> analysis.summary.v,
     skills |-> [i \in 1..Len(DictGet(analysis, "matched_skills", PyList(<<>>)).v) |->
                   DictGet(analysis, "matched_skills", PyList(<<>>)).v[i].v],
     experience |-> DictGet(analysis, "years_of_experience", PyStr("")).v,
     match_reasoning |-> analysis.match_reasoning.v,
     interview_date |-> PyNone,
     interview_link |-> PyNone]

\* A mutant of ProcessingResult: the two counts are swapped.
ProcessingResultSwapped(files, candidates, summary) ==
    [job_id |-> Uuid("job", 0).v,
     total_resumes |-> Len(candidates),
     processed_resumes |-> Len(files),
     candidates |-> candidates,
     summary |-> summary,
     status |-> "completed"]

\* The dict process_resumes returns.
ProcessingResult(files, candidates, summary) ==
    [job_id |-> Uuid("job", 0).v,
     total_resumes |-> Len(files),
     processed_resumes |-> Len(candidates),
     candidates |-> candidates,
     summary |-> summary,
     status |-> "completed"]

NoResult == [status |-> "none"]

BatchIdle ==
    /\ batchPc = "idle"
    /\ resumeFiles = <<>>
    /\ fileIdx = 0
    /\ analyses = <<>>
    /\ oracleCalls = <<>>
    /\ batchResult = NoResult

\* process_resumes was called with resume_files; the loop has not started.
BatchInit ==
    /\ batchPc = "loop"
    /\ resumeFiles \in SeqUpTo(DocUniverse, MaxDocs)
    /\ fileIdx = 1
    /\ analyses = <<>>
    /\ oracleCalls = <<>>
    /\ batchResult = NoResult

\* One turn of the loop that ends in `continue` at line 68.
SkipInvalidResume ==
    /\ batchPc = "loop"
    /\ fileIdx <= Len(resumeFiles)
    /\ SkipsResume(resumeFiles[fileIdx])
    /\ fileIdx' = fileIdx + 1
    /\ UNCHANGED <<batchPc, resumeFiles, analyses, oracleCalls, batchResult>>
    /\ UNCHANGED notBatchVars

\* One turn of the loop that calls the analyzer: the LLM API answers `response`.
AnalyzeResume ==
    /\ batchPc = "loop"
    /\ fileIdx <= Len(resumeFiles)
    /\ ~SkipsResume(resumeFiles[fileIdx])
    /\ \E response \in OracleUniverse :
          LET got == analyze_resume(response)
          IN  /\ oracleCalls' = Append(oracleCalls,
                                        [doc |-> fileIdx, failed |-> OracleFailed(response)])
              /\ analyses' =
                    IF got.raised
                    THEN analyses  \* except Exception: continue
                    ELSE Append(analyses,
                                WithMetadata(got.analysis, resumeFiles[fileIdx], fileIdx))
    /\ fileIdx' = fileIdx + 1
    /\ UNCHANGED <<batchPc, resumeFiles, batchResult>>
    /\ UNCHANGED notBatchVars

\* After the loop: rank, build the Candidate objects and the summary, return.
ProcessReturn ==
    /\ batchPc = "loop"
    /\ fileIdx > Len(resumeFiles)
    /\ LET ranked_analyses == rank_candidates(analyses)
       IN  IF \E i \in 1..Len(ranked_analyses) : CandidateRaises(ranked_analyses[i])
           THEN /\ batchPc' = "raised"
                /\ batchResult' = NoResult
           ELSE /\ batchPc' = "done"
                /\ batchResult' =
                      ProcessingResult(resumeFiles,
                          [i \in 1..Len(ranked_analyses) |-> CandidateOf(ranked_analyses[i])],
                          generate_ranking_summary(ranked_analyses))
    /\ UNCHANGED <<resumeFiles, fileIdx, analyses, oracleCalls>>
    /\ UNCHANGED notBatchVars

BatchNext == SkipInvalidResume \/ AnalyzeResume \/ ProcessReturn

----------------------------------------------------------------------------
(* EmailDraftService.draft_interview_confirmation *)

\* datetime.isoformat(): the calendar fields of the minute count t.
IsoFormat(t) ==
    <<t \div MinutesPerDay, (t % MinutesPerDay) \div MinutesPerHour, t % MinutesPerHour>>

\* strftime("%B %d, %Y at %I:%M %p UTC"): day, hour on the 12-hour clock, minute, AM/PM.
FormatDate(t) ==
    LET hour == (t % MinutesPerDay) \div MinutesPerHour
    IN  [day |-> t \div MinutesPerDay,
         hour12 |-> IF hour % 12 = 0 THEN 12 ELSE hour % 12,
         minute |-> t % MinutesPerHour,
         pm |-> hour >= 12]

\* The draft dict; formatFails: building the text raised and the except branch answered.
draft_interview_confirmation(candidate_name, candidate_email, interview_date, interview_link, job_title, formatFails) ==
    IF formatFails
    THEN [to_email |-> candidate_email,
          to_name |-> candidate_name,
          subject |-> <<"Interview Confirmation">>,
          body |-> [text |-> "Error generating email content"]]
    ELSE [to_email |-> candidate_email,
          to_name |-> candidate_name,
          subject |-> <<"Interview Confirmation", job_title, "Our Company">>,
          body |-> [text |-> "Dear", name |-> candidate_name,
                    date |-> FormatDate(interview_date), link |-> interview_link]]

----------------------------------------------------------------------------
(* CalendarScheduler.schedule_interview *)

\* The number of further calls the model follows on the same agent.
MaxCalls == 1

\* A mutant of ServiceAfter: the service is not kept.
ServiceForgotten(serviceSet, authOk) == FALSE

\* self.service after `if not self.service: self.authenticate()`: authenticate sets it
\* when it succeeds, and nothing ever unsets it.
ServiceAfter(serviceSet, authOk) == serviceSet \/ authOk

\* What one call of schedule_interview meets:
\*   "auth_failed"     self.service is unset and authenticate() returned False
\*   "api_error"       events().insert(...).execute() raised
\*   "created"         the event was inserted and carries an htmlLink
\*   "created_nolink"  the event was inserted and carries no htmlLink
BookingOutcomes == {"auth_failed", "api_error", "created", "created_nolink"}

\* The outcome is possible for a scheduler whose service is (not) set.
OutcomePossible(outcome, serviceSet) == outcome = "auth_failed" => ~serviceSet

\* The id the calendar gives to the next event: one it holds for no other event.
RECURSIVE NextEventId(_)
NextEventId(events) ==
    IF events = <<>> THEN 1
    ELSE Max2(events[Len(events)].id + 1, NextEventId(SubSeq(events, 1, Len(events) - 1)))

\* The event the insert adds to the calendar (n: its id).
EventOf(interview_date, duration_minutes, candidate_name, n) ==
    [id |-> n, start |-> interview_date, end |-> interview_date + duration_minutes,
     summary |-> candidate_name]

\* The calendar after the call.
CalendarAfter(events, outcome, interview_date, duration_minutes, candidate_name) ==
    IF outcome \in {"created", "created_nolink"}
    THEN Append(events, EventOf(interview_date, duration_minutes, candidate_name,
                                NextEventId(events)))
    ELSE events

\* The return value of schedule_interview: the link, '' or None.
\* event.get('htmlLink', '') is '' for an event without a link.
LinkReturned(events, outcome) ==
    CASE outcome = "created" -> PyStr(<<"https://calendar/event", NextEventId(events)>>)
      [] outcome = "created_nolink" -> PyStr(<<>>)
      [] OTHER -> PyNone

\* `if interview_link:` is taken: the value is neither None nor ''.
Truthy(link) == link.t = "str" /\ link.v # <<>>

----------------------------------------------------------------------------
(* HRAgent.select_and_schedule_interviews *)

\* A Candidate of the pool; email is a string ("" included) or None.
PoolCandidate(id, name, email) ==
    [id |-> id, name |-> name, email |-> email, summary |-> "summary of " \o name]

NoEmail == "None"

\* The candidates the pool is drawn from: two of them share the id c1.
CandidateUniverse ==
    { PoolCandidate("c1", "Ann", "ann@example.org"),
      PoolCandidate("c2", "Bob", ""),
      PoolCandidate("c1", "Cy", NoEmail) }

\* The values of the argument candidate_ids: c9 is the id of no candidate; ids in
\* another order than the pool's, twice, and absent from the pool.
IdLists ==
    { <<>>, <<"c9">>, <<"c1">>, <<"c2">>, <<"c2", "c1">>, <<"c2", "c2", "c1">>,
      <<"c9", "c2", "c9">> }

\* The values of the argument start_date: None, or a time.
StartDate(isNone, at) == [none |-> isNone, at |-> at]
StartDates == {StartDate(TRUE, 0), StartDate(FALSE, 540), StartDate(FALSE, 9990)}

\* The values datetime.now() takes.
NowTimes == {615}

\* candidate.email or 'no-email@example.com'
EmailOrDefault(email) == IF email \in {NoEmail, ""} THEN "no-email@example.com" ELSE email

\* x in candidate_ids
InList(x, list) == \E i \in 1..Len(list) : list[i] = x

\* A mutant of SelectCandidates: one candidate per entry of candidate_ids, in the
\* order of candidate_ids.
RECURSIVE SelectByIdOrder(_, _)
SelectByIdOrder(candidates, candidate_ids) ==
    IF candidate_ids = <<>> THEN <<>>
    ELSE SelectSeq(candidates, LAMBDA c : c.id = Head(candidate_ids))
         \o SelectByIdOrder(candidates, Tail(candidate_ids))

\* [c for c in candidates if c.id in candidate_ids]
SelectCandidates(candidates, candidate_ids) ==
    SelectSeq(candidates, LAMBDA c : InList(c.id, candidate_ids))

\* A mutant of NothingSelected: the early return is missing.
NeverEarlyReturn(selected_candidates) == FALSE

\* if not selected_candidates: return ... 'failed'
NothingSelected(selected_candidates) == selected_candidates = <<>>

\* A mutant of InterviewDate: the offset follows the loop position.
InterviewDateByPosition(start_date, done, position) ==
    start_date + (position - 1) * MinutesPerHour

\* start_date + timedelta(hours=len(scheduled)); position is the loop's position.
InterviewDate(start_date, done, position) == start_date + Len(done) * MinutesPerHour

\* A mutant of StatusAfterLoop: "completed" only when something was scheduled.
StatusByResult(done) == IF done = <<>> THEN "failed" ELSE "completed"

\* The status returned after the loop.
StatusAfterLoop(done) == "completed"

\* A mutant of BookingSucceeded: an entry is made whenever the call returned a value.
BookingReturned(link) == link.t = "str"

\* if interview_link:
BookingSucceeded(link) == Truthy(link)

\* No call of select_and_schedule_interviews is part of the run.
SchedIdle ==
    /\ schedPc = "off"
    /\ jobTitle = ""
    /\ pool = <<>>
    /\ candidateIds = <<>>
    /\ startDate = 0
    /\ selected = <<>>
    /\ selIdx = 0
    /\ scheduled = <<>>
    /\ emailDrafts = <<>>
    /\ schedStatus = ""
    /\ bookings = <<>>
    /\ service = FALSE
    /\ calendar = <<>>

\* The agent was constructed: CalendarScheduler.__init__ leaves service unset.
SchedInit ==
    /\ schedPc = "idle"
    /\ jobTitle = ""
    /\ pool = <<>>
    /\ candidateIds = <<>>
    /\ startDate = 0
    /\ selected = <<>>
    /\ selIdx = 0
    /\ scheduled = <<>>
    /\ emailDrafts = <<>>
    /\ schedStatus = ""
    /\ bookings = <<>>
    /\ service = FALSE
    /\ calendar = <<>>

\* The call and the code before the loop (lines 141-156), with the arguments drawn
\* from the given pools, id lists and start dates.
ScheduleCallWith(pools, idLists, startDates) ==
    /\ schedPc = "idle"
    /\ \E candidates \in pools,
          candidate_ids \in idLists,
          start_date \in startDates, now \in NowTimes, job_title \in {"Engineer"} :
          LET selected_candidates == SelectCandidates(candidates, candidate_ids)
          IN  /\ pool' = candidates
              /\ candidateIds' = candidate_ids
              /\ jobTitle' = job_title
              /\ startDate' = IF start_date.none THEN now + MinutesPerDay
                              ELSE start_date.at
              /\ selected' = selected_candidates
              /\ IF NothingSelected(selected_candidates)
                 THEN /\ schedPc' = "done"
                      /\ schedStatus' = "failed"
                      /\ selIdx' = 0
                 ELSE /\ schedPc' = "loop"
                      /\ schedStatus' = ""
                      /\ selIdx' = 1
    /\ UNCHANGED <<scheduled, emailDrafts, bookings, service, calendar>>
    /\ UNCHANGED notSchedVars

\* A call with any of the pools, id lists and start dates above.
ScheduleCall == ScheduleCallWith(SeqUpTo(CandidateUniverse, MaxPool), IdLists, StartDates)

\* One turn of the loop over selected_candidates (lines 162-196).
ScheduleCandidate ==
    /\ schedPc = "loop"
    /\ selIdx <= Len(selected)
    /\ \E outcome \in BookingOutcomes, formatFails \in BOOLEAN :
          LET candidate == selected[selIdx]
              interview_date == InterviewDate(startDate, scheduled, selIdx)
              interview_link == LinkReturned(calendar, outcome)
          IN  /\ OutcomePossible(outcome, service)
              /\ BookingSucceeded(interview_link) \/ ~formatFails
              /\ bookings' = Append(bookings, [candidate |-> candidate,
                                               interview_date |-> interview_date,
                                               outcome |-> outcome])
              /\ service' = ServiceAfter(service, outcome # "auth_failed")
              /\ calendar' = CalendarAfter(calendar, outcome, interview_date,
                                           InterviewDurationMinutes, candidate.name)
              /\ IF BookingSucceeded(interview_link)
                 THEN /\ scheduled' = Append(scheduled,
                            [candidate_id |-> candidate.id,
                             candidate_name |-> candidate.name,
                             candidate_email |-> candidate.email,
                             interview_date |-> IsoFormat(interview_date),
                             interview_link |-> interview_link.v])
                      /\ emailDrafts' = Append(emailDrafts,
                            draft_interview_confirmation(candidate.name,
                                EmailOrDefault(candidate.email), interview_date,
                                interview_link.v, jobTitle, formatFails))
                 ELSE UNCHANGED <<scheduled, emailDrafts>>
    /\ selIdx' = selIdx + 1
    /\ UNCHANGED <<schedPc, jobTitle, pool, candidateIds, startDate, selected, schedStatus>>
    /\ UNCHANGED notSchedVars

\* The return after the loop (lines 198-202).
ScheduleReturn ==
    /\ schedPc = "loop"
    /\ selIdx > Len(selected)
    /\ schedPc' = "done"
    /\ schedStatus' = StatusAfterLoop(scheduled)
    /\ UNCHANGED <<jobTitle, pool, candidateIds, startDate, selected, selIdx, scheduled,
                   emailDrafts, bookings, service, calendar>>
    /\ UNCHANGED notSchedVars

SchedNext == ScheduleCall \/ ScheduleCandidate \/ ScheduleReturn

\* The calls of a sequence of requests: Ann and Bob in the pool, one or both of them
\* selected, start_date left out or Monday 09:00.
SessionPools ==
    { <<PoolCandidate("c1", "Ann", "ann@example.org"), PoolCandidate("c2", "Bob", "")>> }
SessionIdLists == { <<"c1">>, <<"c2", "c1">> }
SessionStartDates == {StartDate(TRUE, 0), StartDate(FALSE, 540)}

ScheduleCallInSession == ScheduleCallWith(SessionPools, SessionIdLists, SessionStartDates)

\* The router serves the next /select-candidates request with the same
\* module-level agent: the locals of the call are gone, self.service and the
\* calendar stay.
ScheduleAgain ==
    /\ schedPc = "done"
    /\ calls < MaxCalls
    /\ calls' = calls + 1
    /\ schedPc' = "idle"
    /\ jobTitle' = ""
    /\ pool' = <<>>
    /\ candidateIds' = <<>>
    /\ startDate' = 0
    /\ selected' = <<>>
    /\ selIdx' = 0
    /\ scheduled' = <<>>
    /\ emailDrafts' = <<>>
    /\ schedStatus' = ""
    /\ bookings' = <<>>
    /\ UNCHANGED <<service, calendar>>
    /\ UNCHANGED <<rankVars, batchVars, toolVars, sendVars, availVars, endpointVars,
                   calMethodVars>>

SchedSessionNext ==
    ScheduleCallInSession \/ ScheduleCandidate \/ ScheduleReturn \/ ScheduleAgain

----------------------------------------------------------------------------
(* CandidateRanker.select_top_candidates and categorize_candidates called on their own *)

\* Longest list handed to select_top_candidates.
MaxRanked == 4
\* Largest max_candidates.
MaxSelect == 2
\* Longest list handed to categorize_candidates.
MaxTiered == 3

\* score >= number raises TypeError when the score is a str or None.
CompareRaises(x) == DictGet(x, "overall_score", PyInt(0)).t # "int"

\* A mutant of Qualifies: the threshold itself does not qualify.
QualifiesStrictly(candidate, min_score_threshold) ==
    DictGet(candidate, "overall_score", PyInt(0)).v > min_score_threshold

\* candidate.get('overall_score', 0) >= min_score_threshold
Qualifies(candidate, min_score_threshold) ==
    DictGet(candidate, "overall_score", PyInt(0)).v >= min_score_threshold

\* list[:n]: the first n elements, or all but the last -n for a negative n.
Slice(list, n) ==
    IF n >= 0 THEN SubSeq(list, 1, Min2(n, Len(list)))
    ELSE SubSeq(list, 1, Max2(0, Len(list) + n))

\* select_top_candidates: when the comparison raises, the except branch answers with
\* the unfiltered head of the list.
select_top_candidates(ranked_candidates, max_candidates, min_score_threshold) ==
    IF \E i \in 1..Len(ranked_candidates) : CompareRaises(ranked_candidates[i])
    THEN Slice(ranked_candidates, max_candidates)
    ELSE Slice(SelectSeq(ranked_candidates,
                         LAMBDA c : Qualifies(c, min_score_threshold)),
               max_candidates)

\* categorize_candidates has no try: a score that cannot be compared raises.
CategorizeRaises(ranked_candidates) ==
    \E i \in 1..Len(ranked_candidates) : CompareRaises(ranked_candidates[i])

\* The dicts the lists of select_top_candidates are drawn from: the scores of the
\* documented example, a score equal to the threshold 50, twins, a missing score and
\* a score that is no number.
TopUniverse ==
    { Analysis("Ann", PyInt(95), PyInt(50), PyInt(50)),
      Analysis("Bob", PyInt(90), PyInt(50), PyInt(50)),
      Analysis("Cy",  PyInt(60), PyInt(50), PyInt(50)),
      Analysis("Di",  PyInt(40), PyInt(50), PyInt(50)),
      Analysis("Ed",  PyInt(50), PyInt(50), PyInt(50)),
      Without(Analysis("Gus", PyInt(0), PyInt(50), PyInt(50)), "overall_score"),
      Analysis("Hal", PyStr("high"), PyInt(50), PyInt(50)) }

\* The values of min_score_threshold and max_candidates.
Thresholds == {0, 50, 91}
MaxCandidates == (-1)..MaxSelect

\* The dicts the lists of categorize_candidates are drawn from: both ends of every
\* band, scores outside [0,100], a missing score and a score that is no number.
TierUniverse ==
    { Analysis("t100", PyInt(100), PyInt(50), PyInt(50)),
      Analysis("t80", PyInt(80), PyInt(50), PyInt(50)),
      Analysis("m79", PyInt(79), PyInt(50), PyInt(50)),
      Analysis("m60", PyInt(60), PyInt(50), PyInt(50)),
      Analysis("l59", PyInt(59), PyInt(50), PyInt(50)),
      Analysis("l40", PyInt(40), PyInt(50), PyInt(50)),
      Analysis("n39", PyInt(39), PyInt(50), PyInt(50)),
      Analysis("n0", PyInt(0), PyInt(50), PyInt(50)),
      Analysis("over", PyInt(150), PyInt(50), PyInt(50)),
      Analysis("under", PyInt(-5), PyInt(50), PyInt(50)),
      Without(Analysis("Gus", PyInt(0), PyInt(50), PyInt(50)), "overall_score"),
      Analysis("Hal", PyStr("high"), PyInt(50), PyInt(50)) }

ToolIdle ==
    /\ toolPc = "off"
    /\ rankedCandidates = <<>>
    /\ maxCandidates = 0
    /\ minScoreThreshold = 0
    /\ topOut = <<>>
    /\ tiersOut = <<>>

\* A caller is about to call select_top_candidates on a list.
TopInit ==
    /\ toolPc = "select_top"
    /\ rankedCandidates \in SeqUpTo(TopUniverse, MaxRanked)
    /\ maxCandidates = 0
    /\ minScoreThreshold = 0
    /\ topOut = <<>>
    /\ tiersOut = <<>>

\* A caller is about to call categorize_candidates on a list.
TierInit ==
    /\ toolPc = "categorize"
    /\ rankedCandidates \in SeqUpTo(TierUniverse, MaxTiered)
    /\ maxCandidates = 0
    /\ minScoreThreshold = 0
    /\ topOut = <<>>
    /\ tiersOut = <<>>

SelectTopCall ==
    /\ toolPc = "select_top"
    /\ \E max_candidates \in MaxCandidates, min_score_threshold \in Thresholds :
          /\ maxCandidates' = max_candidates
          /\ minScoreThreshold' = min_score_threshold
          /\ topOut' = select_top_candidates(rankedCandidates, max_candidates,
                                             min_score_threshold)
    /\ toolPc' = "selected"
    /\ UNCHANGED <<rankedCandidates, tiersOut>>
    /\ UNCHANGED notToolVars

CategorizeCall ==
    /\ toolPc = "categorize"
    /\ IF CategorizeRaises(rankedCandidates)
       THEN /\ toolPc' = "raised"
            /\ tiersOut' = <<>>
       ELSE /\ toolPc' = "categorized"
            /\ tiersOut' = categorize_candidates(rankedCandidates)
    /\ UNCHANGED <<rankedCandidates, maxCandidates, minScoreThreshold, topOut>>
    /\ UNCHANGED notToolVars

ToolNext == SelectTopCall \/ CategorizeCall

----------------------------------------------------------------------------
(* HRAgent.send_confirmations *)

\* Most drafts in one call of send_confirmations.
MaxDrafts == 3

\* An email draft dict as draft_interview_confirmation builds it.
Draft(to_email, to_name) ==
    [to_email |-> to_email, to_name |-> to_name,
     subject |-> <<"Interview Confirmation", "Engineer", "Our Company">>,
     body |-> [text |-> "Dear", name |-> to_name]]

\* The dicts email_drafts is drawn from: two recipients, the address used for a
\* candidate without email, and a dict that has no 'to_email'.
DraftUniverse ==
    { Draft("ann@example.org", "Ann"),
      Draft("bob@example.org", "Bob"),
      Draft("no-email@example.com", "Cy"),
      Without(Draft("di@example.org", "Di"), "to_email") }

\* What the SMTP side of one send_email call does:
\*   "delivered"   server.send_message returned
\*   "smtp_error"  connecting, starttls, login or send_message raised
\*   "raised"      the call of send_email itself raised to send_confirmations
MailerOutcomes == {"delivered", "smtp_error", "raised"}

\* send_email: "true", "false" or "raise".  A dict without to_email, subject or body
\* raises KeyError inside the try of send_email, which answers False.
send_email(email_data, configured, outcome) ==
    CASE outcome = "raised" -> "raise"
      [] ~configured -> "false"
      [] {"to_email", "subject", "body"} \ DOMAIN email_data # {} -> "false"
      [] outcome = "delivered" -> "true"
      [] OTHER -> "false"

\* draft['to_email'] raises KeyError, in the loop body and again in the except handler.
RecipientRaises(draft) == "to_email" \notin DOMAIN draft

\* A mutant of NextDraft: a draft whose send failed is tried again.
RetryDraft(i, result) == IF result = "true" THEN i + 1 ELSE i

\* for draft in email_drafts: the position after the draft at position i, whatever
\* its send did.
NextDraft(i, result) == i + 1

\* A mutant of SendResult: the status tells whether every send succeeded.
SendResultByOutcome(sent_emails, failed_emails) ==
    [sent_count |-> Len(sent_emails),
     failed_count |-> Len(failed_emails),
     sent_emails |-> sent_emails,
     failed_emails |-> failed_emails,
     status |-> IF failed_emails = <<>> THEN "completed" ELSE "failed"]

\* The dict send_confirmations returns.
SendResult(sent_emails, failed_emails) ==
    [sent_count |-> Len(sent_emails),
     failed_count |-> Len(failed_emails),
     sent_emails |-> sent_emails,
     failed_emails |-> failed_emails,
     status |-> "completed"]

\* No call of send_confirmations is part of the run; the agent is the one
\* HRAgent.__init__ built, whose smtp_config is set.
SendIdle ==
    /\ sendPc = "off"
    /\ smtpConfig = TRUE
    /\ drafts = <<>>
    /\ draftIdx = 0
    /\ sent = <<>>
    /\ failed = <<>>
    /\ mailerCalls = <<>>
    /\ sendResult = NoResult

\* send_confirmations was called with email_drafts on the agent HRAgent.__init__
\* built (its smtp_config is a dict of four keys); the loop has not started.
SendInit ==
    /\ sendPc = "loop"
    /\ smtpConfig = TRUE
    /\ drafts \in SeqUpTo(DraftUniverse, MaxDrafts)
    /\ draftIdx = 1
    /\ sent = <<>>
    /\ failed = <<>>
    /\ mailerCalls = <<>>
    /\ sendResult = NoResult

\* One turn of the loop over email_drafts (lines 217-232).
SendDraft ==
    /\ sendPc = "loop"
    /\ draftIdx <= Len(drafts)
    /\ \E outcome \in MailerOutcomes :
          LET draft == drafts[draftIdx]
              success == send_email(draft, smtpConfig, outcome)
          IN  /\ mailerCalls' = Append(mailerCalls, [draft |-> draftIdx, result |-> success])
              /\ IF RecipientRaises(draft)
                 THEN /\ sendPc' = "raised"
                      /\ UNCHANGED <<draftIdx, sent, failed>>
                 ELSE /\ sendPc' = "loop"
                      /\ draftIdx' = NextDraft(draftIdx, success)
                      /\ IF success = "true"
                         THEN /\ sent' = Append(sent, draft.to_email)
                              /\ UNCHANGED failed
                         ELSE /\ failed' = Append(failed, draft.to_email)
                              /\ UNCHANGED sent
    /\ UNCHANGED <<smtpConfig, drafts, sendResult>>
    /\ UNCHANGED notSendVars

\* The return after the loop (lines 234-240).
SendReturn ==
    /\ sendPc = "loop"
    /\ draftIdx > Len(drafts)
    /\ sendPc' = "done"
    /\ sendResult' = SendResult(sent, failed)
    /\ UNCHANGED <<smtpConfig, drafts, draftIdx, sent, failed, mailerCalls>>
    /\ UNCHANGED notSendVars

SendNext == SendDraft \/ SendReturn

----------------------------------------------------------------------------
(* CalendarScheduler.find_available_slots *)

\* Largest number of days between the day of start_date and the day of end_date.
MaxSpan == 2

\* The day a time falls on, counted from the epoch's Monday.
DayOf(t) == t \div MinutesPerDay

\* datetime.weekday(): Monday is 0, Sunday is 6.
Weekday(t) == DayOf(t) % 7

\* A mutant of IsWorkday: Saturday counts as a working day.
IsWorkdaySix(t) == Weekday(t) < 6

\* if current_date.weekday() < 5
IsWorkday(t) == Weekday(t) < 5

\* current_date.replace(hour=hour, minute=0, second=0, microsecond=0)
SlotStart(current_date, hour) ==
    DayOf(current_date) * MinutesPerDay + hour * MinutesPerHour

\* A mutant of HourRange: the hours of the working window from the last to the first.
HourRangeDescending(working_hours) ==
    [i \in 1..Max2(0, working_hours[2] - working_hours[1]) |-> working_hours[2] - i]

\* range(working_hours[0], working_hours[1]), in order.
HourRange(working_hours) ==
    [i \in 1..Max2(0, working_hours[2] - working_hours[1]) |-> working_hours[1] + i - 1]

\* The slot starts the for loop builds on the day of current_date, in order.
DaySlotStarts(current_date, working_hours) ==
    [i \in 1..Len(HourRange(working_hours)) |->
        SlotStart(current_date, HourRange(working_hours)[i])]

\* events().list(timeMin, timeMax): the events that end after timeMin and start
\* before timeMax.
ListEvents(events, time_min, time_max) ==
    SelectSeq(events, LAMBDA e : e.end > time_min /\ e.start < time_max)

\* A mutant of _is_slot_free: a slot whose query failed counts as free.
IsSlotFreeOnError(events, start_time, end_time, queryFails) ==
    IF queryFails THEN TRUE
    ELSE Len(ListEvents(events, start_time, end_time)) = 0

\* _is_slot_free; queryFails: the list request raised.
_is_slot_free(events, start_time, end_time, queryFails) ==
    IF queryFails THEN FALSE
    ELSE Len(ListEvents(events, start_time, end_time)) = 0

\* The slots of one day the for loop appends; failing: the slot starts whose list
\* request raises.
DayFreeSlots(events, current_date, working_hours, duration_minutes, failing) ==
    SelectSeq(DaySlotStarts(current_date, working_hours),
              LAMBDA slot_start : _is_slot_free(events, slot_start,
                                                slot_start + duration_minutes,
                                                slot_start \in failing))

\* The list requests of one day, with what each of them met.
DayQueries(events, current_date, working_hours, duration_minutes, failing) ==
    [i \in 1..Len(DaySlotStarts(current_date, working_hours)) |->
        LET slot_start == DaySlotStarts(current_date, working_hours)[i]
        IN  [time_min |-> slot_start,
             time_max |-> slot_start + duration_minutes,
             failed |-> slot_start \in failing,
             events |-> IF slot_start \in failing THEN 0
                        ELSE Len(ListEvents(events, slot_start,
                                            slot_start + duration_minutes))]]

\* The values of start_date and end_date: a day from Thursday to Saturday of the
\* first week and up to MaxSpan days later, at midnight, 09:30 or 15:00.
SweepStartDays == {3, 4, 5}
TimesOfDay == {0, 570, 900}
SweepWindows == {<<9, 11>>, <<9, 9>>, <<14, 15>>}
SweepDurations == {60, 90}

\* The calendars the sweep meets: empty; Friday 09:00-10:00 taken; Friday
\* 10:30-11:00 and the following Monday 09:00-09:30 taken.
CalendarUniverse ==
    { <<>>,
      <<EventOf(4 * MinutesPerDay + 540, 60, "Ann", 1)>>,
      <<EventOf(4 * MinutesPerDay + 630, 30, "Ann", 1),
        EventOf(7 * MinutesPerDay + 540, 30, "Bob", 2)>> }

\* No call of select_and_schedule_interviews is part of the run.
SchedCallIdle ==
    /\ schedPc = "off"
    /\ jobTitle = ""
    /\ pool = <<>>
    /\ candidateIds = <<>>
    /\ startDate = 0
    /\ selected = <<>>
    /\ selIdx = 0
    /\ scheduled = <<>>
    /\ emailDrafts = <<>>
    /\ schedStatus = ""
    /\ bookings = <<>>

\* The agent was constructed (service unset) and the calendar holds some events.
AvailInit ==
    /\ availPc = "idle"
    /\ service = FALSE
    /\ calendar \in CalendarUniverse
    /\ availStart = 0
    /\ availEnd = 0
    /\ workingHours = <<0, 0>>
    /\ durationMinutes = 0
    /\ currentDate = 0
    /\ availableSlots = <<>>
    /\ slotQueries = <<>>
    /\ availResult = <<>>
    /\ credentialsOk = FALSE

\* The call and the code before the loop (lines 88-94); authOk: authenticate()
\* returned True.
FindSlotsCall ==
    /\ availPc = "idle"
    /\ \E startDay \in SweepStartDays, span \in 0..MaxSpan,
          startTime \in TimesOfDay, endTime \in TimesOfDay,
          working_hours \in SweepWindows, duration_minutes \in SweepDurations,
          authOk \in BOOLEAN :
          /\ availStart' = startDay * MinutesPerDay + startTime
          /\ availEnd' = (startDay + span) * MinutesPerDay + endTime
          /\ workingHours' = working_hours
          /\ durationMinutes' = duration_minutes
          /\ currentDate' = startDay * MinutesPerDay + startTime
          /\ credentialsOk' = authOk
          /\ service' = ServiceAfter(service, authOk)
          /\ availPc' = IF service \/ authOk THEN "loop" ELSE "done"
    /\ UNCHANGED <<calendar, availableSlots, slotQueries, availResult>>
    /\ UNCHANGED notAvailVars

\* One turn of the while loop (lines 96-107).
SweepDay ==
    /\ availPc = "loop"
    /\ currentDate <= availEnd
    /\ \E failing \in (IF IsWorkday(currentDate)
                       THEN SUBSET {DaySlotStarts(currentDate, workingHours)[i] :
                                       i \in 1..Len(DaySlotStarts(currentDate, workingHours))}
                       ELSE {{}}) :
          IF IsWorkday(currentDate)
          THEN /\ availableSlots' = availableSlots \o
                     DayFreeSlots(calendar, currentDate, workingHours, durationMinutes,
                                  failing)
               /\ slotQueries' = slotQueries \o
                     DayQueries(calendar, currentDate, workingHours, durationMinutes,
                                failing)
          ELSE UNCHANGED <<availableSlots, slotQueries>>
    /\ currentDate' = currentDate + MinutesPerDay
    /\ UNCHANGED <<availPc, availStart, availEnd, workingHours, durationMinutes,
                   availResult, credentialsOk, service, calendar>>
    /\ UNCHANGED notAvailVars

\* The return after the loop (lines 109-110).
FindSlotsReturn ==
    /\ availPc = "loop"
    /\ currentDate > availEnd
    /\ availPc' = "done"
    /\ availResult' = availableSlots
    /\ UNCHANGED <<availStart, availEnd, workingHours, durationMinutes, currentDate,
                   availableSlots, slotQueries, credentialsOk, service, calendar>>
    /\ UNCHANGED notAvailVars

AvailNext == FindSlotsCall \/ SweepDay \/ FindSlotsReturn

\* The router serves the next /available-slots request with the same module-level
\* agent: the locals of the call are gone, self.service and the calendar stay.
FindSlotsAgain ==
    /\ availPc = "done"
    /\ calls < MaxCalls
    /\ calls' = calls + 1
    /\ availPc' = "idle"
    /\ availStart' = 0
    /\ availEnd' = 0
    /\ workingHours' = <<0, 0>>
    /\ durationMinutes' = 0
    /\ currentDate' = 0
    /\ availableSlots' = <<>>
    /\ slotQueries' = <<>>
    /\ availResult' = <<>>
    /\ credentialsOk' = FALSE
    /\ UNCHANGED <<service, calendar>>
    /\ UNCHANGED <<rankVars, batchVars, schedCallVars, toolVars, sendVars, endpointVars,
                   calMethodVars>>

AvailSessionNext == FindSlotsCall \/ SweepDay \/ FindSlotsReturn \/ FindSlotsAgain

AvailIdle ==
    /\ availPc = "off"
    /\ availStart = 0
    /\ availEnd = 0
    /\ workingHours = <<0, 0>>
    /\ durationMinutes = 0
    /\ currentDate = 0
    /\ availableSlots = <<>>
    /\ slotQueries = <<>>
    /\ availResult = <<>>
    /\ credentialsOk = FALSE

----------------------------------------------------------------------------
(* CalendarScheduler.schedule_multiple_interviews and cancel_interview, called on
   the scheduler itself; no operation of HRAgent calls them. *)

\* Most candidates handed to schedule_multiple_interviews.
MaxMulti == 2

PyBool(b) == [t |-> "bool", v |-> b]

\* The candidate dicts: all keys, name and id only, and an email alone.
MultiCandidateUniverse ==
    { [id |-> PyStr("c1"), name |-> PyStr("Ann"), email |-> PyStr("ann@example.org"),
       summary |-> PyStr("summary of Ann")],
      [id |-> PyStr("c2"), name |-> PyStr("Bob")],
      [email |-> PyStr("eve@example.org")] }

\* The values of start_date and duration_minutes.
MultiStartDates == {540}
MultiDurations == {60, 90}

\* The entry appended for a candidate whose booking returned a link.
MultiEntry(candidate, current_date, interview_link) ==
    [candidate_id |-> DictGet(candidate, "id", PyNone),
     candidate_name |-> DictGet(candidate, "name", PyNone),
     candidate_email |-> DictGet(candidate, "email", PyNone),
     interview_date |-> IsoFormat(current_date),
     interview_link |-> interview_link]

\* The calendar without the event of the given id.
CalendarWithout(events, event_id) == SelectSeq(events, LAMBDA e : e.id # event_id)

\* The calendar holds an event of the given id.
HasEvent(events, event_id) == \E k \in 1..Len(events) : events[k].id = event_id

\* No method of the scheduler is called on its own.
CalMethodIdle ==
    /\ calPc = "off"
    /\ calCandidates = <<>>
    /\ calDuration = 0
    /\ calIdx = 0
    /\ calCurrentDate = 0
    /\ calScheduled = <<>>
    /\ calReturn = PyNone

\* The scheduler was constructed (service unset) and the calendar holds some events.
CalMethodInit ==
    /\ calPc = "idle"
    /\ service = FALSE
    /\ calendar \in CalendarUniverse
    /\ calCandidates = <<>>
    /\ calDuration = 0
    /\ calIdx = 0
    /\ calCurrentDate = 0
    /\ calScheduled = <<>>
    /\ calReturn = PyNone

\* schedule_multiple_interviews: the call and the code before the loop (229-230).
MultiCall ==
    /\ calPc = "idle"
    /\ \E candidates \in SeqUpTo(MultiCandidateUniverse, MaxMulti),
          start_date \in MultiStartDates, duration_minutes \in MultiDurations :
          /\ calCandidates' = candidates
          /\ calDuration' = duration_minutes
          /\ calCurrentDate' = start_date
    /\ calPc' = "loop"
    /\ calIdx' = 1
    /\ calScheduled' = <<>>
    /\ UNCHANGED <<calReturn, service, calendar, calls>>
    /\ UNCHANGED notCalMethodVars

\* One turn of the loop over candidates (232-250).
MultiCandidate ==
    /\ calPc = "loop"
    /\ calIdx <= Len(calCandidates)
    /\ \E outcome \in BookingOutcomes :
          LET candidate == calCandidates[calIdx]
              interview_link == LinkReturned(calendar, outcome)
          IN  /\ OutcomePossible(outcome, service)
              /\ service' = ServiceAfter(service, outcome # "auth_failed")
              /\ calendar' = CalendarAfter(calendar, outcome, calCurrentDate, calDuration,
                                           DictGet(candidate, "name", PyStr("Unknown")).v)
              /\ IF Truthy(interview_link)
                 THEN /\ calScheduled' = Append(calScheduled,
                            MultiEntry(candidate, calCurrentDate, interview_link.v))
                      /\ calCurrentDate' = calCurrentDate + MinutesPerHour
                 ELSE UNCHANGED <<calScheduled, calCurrentDate>>
    /\ calIdx' = calIdx + 1
    /\ UNCHANGED <<calPc, calCandidates, calDuration, calReturn, calls>>
    /\ UNCHANGED notCalMethodVars

\* return scheduled (252).
MultiReturn ==
    /\ calPc = "loop"
    /\ calIdx > Len(calCandidates)
    /\ calPc' = "done"
    /\ calReturn' = PyList(calScheduled)
    /\ UNCHANGED <<calCandidates, calDuration, calIdx, calCurrentDate, calScheduled,
                   service, calendar, calls>>
    /\ UNCHANGED notCalMethodVars

\* cancel_interview (264-278); authOk: authenticate() returned True; deleteFails:
\* events().delete(...).execute() raised although the event is there.  The delete
\* of an id the calendar does not hold raises.
CancelInterview ==
    /\ calPc = "idle"
    /\ \E event_id \in {calendar[k].id : k \in 1..Len(calendar)} \cup {NextEventId(calendar)},
          authOk \in BOOLEAN, deleteFails \in BOOLEAN :
          /\ service' = ServiceAfter(service, authOk)
          /\ IF ~(service \/ authOk)
             THEN /\ calReturn' = PyBool(FALSE)
                  /\ UNCHANGED calendar
             ELSE IF deleteFails \/ ~HasEvent(calendar, event_id)
             THEN /\ calReturn' = PyBool(FALSE)
                  /\ UNCHANGED calendar
             ELSE /\ calReturn' = PyBool(TRUE)
                  /\ calendar' = CalendarWithout(calendar, event_id)
    /\ calPc' = "done"
    /\ UNCHANGED <<calCandidates, calDuration, calIdx, calCurrentDate, calScheduled, calls>>
    /\ UNCHANGED notCalMethodVars

\* The next call on the same scheduler: the locals of the call are gone,
\* self.service and the calendar stay.
CalMethodAgain ==
    /\ calPc = "done"
    /\ calls < MaxCalls
    /\ calls' = calls + 1
    /\ calPc' = "idle"
    /\ calCandidates' = <<>>
    /\ calDuration' = 0
    /\ calIdx' = 0
    /\ calCurrentDate' = 0
    /\ calScheduled' = <<>>
    /\ calReturn' = PyNone
    /\ UNCHANGED <<service, calendar>>
    /\ UNCHANGED notCalMethodVars

CalMethodNext == MultiCall \/ MultiCandidate \/ MultiReturn \/ CancelInterview

CalMethodSessionNext ==
    MultiCall \/ MultiCandidate \/ MultiReturn \/ CancelInterview \/ CalMethodAgain

----------------------------------------------------------------------------
(* The module-level agent of the router and the /rank-candidates endpoint *)

\* hr_agent = HRAgent() has served no call yet.
SessionIdle == calls = 0

EndpointIdle ==
    /\ epPc = "off"
    /\ epCandidates = <<>>
    /\ epRanked = <<>>
    /\ epSummary = NoResult

\* The longest list of candidates submitted to /rank-candidates.
MaxSubmitted == 3

\* A Candidate of the request body, as pydantic validated it (0 <= score <= 100).
SubmittedCandidate(id, name, score) ==
    [id |-> id, name |-> name, email |-> "", phone |-> "", resume_id |-> "r-" \o id,
     score |-> score, summary |-> "summary of " \o name, skills |-> <<>>,
     experience |-> "", match_reasoning |-> "", interview_date |-> PyNone,
     interview_link |-> PyNone]

\* c.dict(): the fields of the model as a dict; it has the key 'score' and none of
\* 'overall_score', 'skill_score', 'experience_score', 'candidate_name'.
CandidateDict(c) ==
    [id |-> PyStr(c.id), name |-> PyStr(c.name), email |-> PyStr(c.email),
     phone |-> PyStr(c.phone), resume_id |-> PyStr(c.resume_id), score |-> PyInt(c.score),
     summary |-> PyStr(c.summary), skills |-> PyList(c.skills),
     experience |-> PyStr(c.experience), match_reasoning |-> PyStr(c.match_reasoning),
     interview_date |-> c.interview_date, interview_link |-> c.interview_link]

\* [c.dict() for c in candidates]
CandidateDicts(candidates) == [i \in 1..Len(candidates) |-> CandidateDict(candidates[i])]

\* The candidates of the request bodies: one per tier, two of them with the same
\* score.
SubmittedUniverse ==
    { SubmittedCandidate("c1", "Ann", 40),
      SubmittedCandidate("c2", "Bob", 90),
      SubmittedCandidate("c3", "Cy", 90),
      SubmittedCandidate("c4", "Di", 65),
      SubmittedCandidate("c5", "Ed", 10) }

\* A request to /rank-candidates arrived.
EndpointInit ==
    /\ epPc = "start"
    /\ epCandidates \in SeqUpTo(SubmittedUniverse, MaxSubmitted)
    /\ epRanked = <<>>
    /\ epSummary = NoResult

\* The handler of /rank-candidates (lines 348-357).
RankEndpointCall ==
    /\ epPc = "start"
    /\ LET ranked == rank_candidates(CandidateDicts(epCandidates))
       IN  /\ epRanked' = ranked
           /\ epSummary' = generate_ranking_summary(ranked)
    /\ epPc' = "done"
    /\ UNCHANGED epCandidates
    /\ UNCHANGED notEndpointVars

----------------------------------------------------------------------------
(* Specifications: one per operation, sequences of calls on one agent, and one call
   of any operation. *)

\* rank_candidates on a list drawn from RankUniverse.
InitRank ==
    RankInit /\ BatchIdle /\ SchedIdle /\ ToolIdle /\ SendIdle /\ AvailIdle
        /\ SessionIdle /\ EndpointIdle /\ CalMethodIdle
SpecRank == InitRank /\ [][RankNext]_vars

\* process_resumes on a batch drawn from DocUniverse.
InitBatch ==
    RankIdle /\ BatchInit /\ SchedIdle /\ ToolIdle /\ SendIdle /\ AvailIdle
        /\ SessionIdle /\ EndpointIdle /\ CalMethodIdle
SpecBatch == InitBatch /\ [][BatchNext]_vars

\* select_and_schedule_interviews on a freshly constructed agent.
InitSched ==
    RankIdle /\ BatchIdle /\ SchedInit /\ ToolIdle /\ SendIdle /\ AvailIdle
        /\ SessionIdle /\ EndpointIdle /\ CalMethodIdle
SpecSched == InitSched /\ [][SchedNext]_vars

\* select_top_candidates on a list drawn from TopUniverse.
InitTop ==
    RankIdle /\ BatchIdle /\ SchedIdle /\ TopInit /\ SendIdle /\ AvailIdle
        /\ SessionIdle /\ EndpointIdle /\ CalMethodIdle
SpecTop == InitTop /\ [][SelectTopCall]_vars

\* categorize_candidates on a list drawn from TierUniverse.
InitTiers ==
    RankIdle /\ BatchIdle /\ SchedIdle /\ TierInit /\ SendIdle /\ AvailIdle
        /\ SessionIdle /\ EndpointIdle /\ CalMethodIdle
SpecTiers == InitTiers /\ [][CategorizeCall]_vars

\* send_confirmations on a list drawn from DraftUniverse.
InitSend ==
    RankIdle /\ BatchIdle /\ SchedIdle /\ ToolIdle /\ SendInit /\ AvailIdle
        /\ SessionIdle /\ EndpointIdle /\ CalMethodIdle
SpecSend == InitSend /\ [][SendNext]_vars

\* find_available_slots on a freshly constructed agent.
InitAvail ==
    RankIdle /\ BatchIdle /\ SchedCallIdle /\ ToolIdle /\ SendIdle /\ AvailInit
        /\ SessionIdle /\ EndpointIdle /\ CalMethodIdle
SpecAvail == InitAvail /\ [][AvailNext]_vars

InitRankEndpoint ==
    RankIdle /\ BatchIdle /\ SchedIdle /\ ToolIdle /\ SendIdle /\ AvailIdle
        /\ SessionIdle /\ EndpointInit /\ CalMethodIdle
SpecRankEndpoint == InitRankEndpoint /\ [][RankEndpointCall]_vars

\* Several /select-candidates requests served by the same agent.
SpecSchedSession == InitSched /\ [][SchedSessionNext]_vars

\* The methods of the scheduler called on their own, once and several times.
InitCalMethod ==
    RankIdle /\ BatchIdle /\ SchedCallIdle /\ ToolIdle /\ SendIdle /\ AvailIdle
        /\ SessionIdle /\ EndpointIdle /\ CalMethodInit
SpecCalMethod == InitCalMethod /\ [][CalMethodNext]_vars
SpecCalMethodSession == InitCalMethod /\ [][CalMethodSessionNext]_vars

\* Several /available-slots requests served by the same agent.
SpecAvailSession == InitAvail /\ [][AvailSessionNext]_vars

\* One call of any of the operations.
Init ==
    InitRank \/ InitBatch \/ InitSched \/ InitTop \/ InitTiers \/ InitSend \/ InitAvail
        \/ InitRankEndpoint \/ InitCalMethod

Next ==
    RankNext \/ BatchNext \/ SchedNext \/ ToolNext \/ SendNext \/ AvailNext
        \/ RankEndpointCall \/ CalMethodNext

Spec == Init /\ [][Next]_vars

----------------------------------------------------------------------------
(* Claims about rank_candidates (SpecRank). *)

\* A MatchAssessment: the three scores are present and are integers.
IsAssessment(x) == \A f \in ScoreFields : f \in DOMAIN x /\ x[f].t = "int"

IsAssessmentList(list) == \A i \in 1..Len(list) : IsAssessment(list[i])

Scores(x) == <<x.overall_score.v, x.skill_score.v, x.experience_score.v>>

\* a's (overall, skill, experience) is lexicographically not below b's.
ScoresNotBelow(a, b) ==
    LET p == Scores(a)
        q == Scores(b)
    IN  \/ p[1] > q[1]
        \/ p[1] = q[1] /\ p[2] > q[2]
        \/ p[1] = q[1] /\ p[2] = q[2] /\ p[3] >= q[3]

\* The entries of list whose three scores are those of x, in the order of list.
WithScoresOf(list, x) == SelectSeq(list, LAMBDA y : Scores(y) = Scores(x))

\* C3: for every list of assessments, rank returns them in non-increasing
\* lexicographic order of (overall_score, skill_score, experience_score), and the
\* assessments with equal scores keep the relative order they had in the input.
C3_RankSortedStable ==
    (rankPc = "done" /\ IsAssessmentList(rankIn)) =>
        /\ Len(rankOut) = Len(rankIn)
        /\ \A i \in 1..(Len(rankOut) - 1) : ScoresNotBelow(rankOut[i], rankOut[i + 1])
        /\ \A i \in 1..Len(rankIn) :
              WithScoresOf(rankOut, rankIn[i]) = WithScoresOf(rankIn, rankIn[i])

\* Three assessments were ranked: a lower-scored one in front of two different ones
\* that tie on all three scores.
C3_Witness ==
    /\ rankPc = "done"
    /\ IsAssessmentList(rankIn)
    /\ Len(rankIn) = 3
    /\ rankIn[1].overall_score.v < rankIn[2].overall_score.v
    /\ Scores(rankIn[2]) = Scores(rankIn[3])
    /\ rankIn[2] # rankIn[3]
    /\ rankOut = <<rankIn[2], rankIn[3], rankIn[1]>>

----------------------------------------------------------------------------
(* Claims about select_and_schedule_interviews (SpecSched). *)

\* The requests of the current call that returned a link.
Booked == SelectSeq(bookings, LAMBDA b : b.outcome = "created")

\* How many of the first n requests returned a link.
BookedBefore(n) == Len(SelectSeq(SubSeq(bookings, 1, n), LAMBDA b : b.outcome = "created"))

\* Some candidate of the pool has an id in candidate_ids.
SomeSelected == \E i \in 1..Len(pool), j \in 1..Len(candidateIds) : pool[i].id = candidateIds[j]

\* The pool candidates whose id is in candidate_ids, in pool order.
Requested ==
    SelectSeq(pool, LAMBDA c : \E j \in 1..Len(candidateIds) : candidateIds[j] = c.id)

\* C1: the k-th entry (k = 0, 1, ...) of the scheduled list has interview_date =
\* start_date + k hours, and the time offered in a booking request is start_date plus
\* one hour per booking that already succeeded in this call.
C1_OffsetBySuccessCount ==
    /\ \A k \in 1..Len(scheduled) :
          scheduled[k].interview_date = IsoFormat(startDate + (k - 1) * MinutesPerHour)
    /\ \A n \in 1..Len(bookings) :
          bookings[n].interview_date = startDate + BookedBefore(n - 1) * MinutesPerHour

\* Three candidates were selected, the second booking failed, and the call returned
\* two entries.
C1_Witness ==
    /\ schedPc = "done"
    /\ Len(bookings) = 3
    /\ bookings[1].outcome = "created"
    /\ bookings[2].outcome = "api_error"
    /\ bookings[3].outcome = "created"
    /\ Len(scheduled) = 2
    /\ schedStatus = "completed"

\* C5: the scheduled list holds exactly the selected candidates whose booking
\* returned a link, in order, and email_drafts holds one draft per scheduled entry in
\* the same order; a candidate whose booking failed has neither.
C5_ScheduledAreBooked ==
    /\ Len(scheduled) = Len(Booked)
    /\ Len(emailDrafts) = Len(scheduled)
    /\ \A k \in 1..Len(scheduled) :
          /\ scheduled[k].candidate_id = Booked[k].candidate.id
          /\ scheduled[k].candidate_name = Booked[k].candidate.name
          /\ scheduled[k].candidate_email = Booked[k].candidate.email
          /\ emailDrafts[k].to_name = scheduled[k].candidate_name
          /\ emailDrafts[k].to_email = EmailOrDefault(scheduled[k].candidate_email)
    /\ schedPc = "done" =>
          \A n \in 1..Len(Booked) : \E i \in 1..Len(Requested) : Requested[i] = Booked[n].candidate

\* A call returned after one booking gave a link, one created an event without a
\* link and one failed.
C5_Witness ==
    /\ schedPc = "done"
    /\ Len(bookings) = 3
    /\ bookings[1].outcome = "created_nolink"
    /\ bookings[2].outcome = "created"
    /\ bookings[3].outcome = "api_error"
    /\ Len(scheduled) = 1
    /\ Len(emailDrafts) = 1

\* C6: the status is "completed" whenever some candidate was selected, also when
\* every booking failed.
C6_CompletedWhenSelected ==
    (schedPc = "done" /\ SomeSelected) => schedStatus = "completed"

\* Two candidates were selected, both bookings failed, both lists are empty.
C6_Witness ==
    /\ schedPc = "done"
    /\ SomeSelected
    /\ Len(bookings) = 2
    /\ scheduled = <<>>
    /\ emailDrafts = <<>>
    /\ schedStatus = "completed"

\* C7: when no candidate of the pool has an id in candidate_ids, the call returns
\* "failed" with two empty lists and requests no booking; "failed" is returned in
\* no other case.
C7_FailedIffNothingSelected ==
    schedPc = "done" =>
        /\ ~SomeSelected =>
              /\ schedStatus = "failed"
              /\ scheduled = <<>>
              /\ emailDrafts = <<>>
              /\ bookings = <<>>
        /\ schedStatus = "failed" => ~SomeSelected

\* A call with a non-empty pool and non-empty candidate_ids that share no id.
C7_Witness ==
    /\ schedPc = "done"
    /\ pool # <<>>
    /\ candidateIds # <<>>
    /\ ~SomeSelected
    /\ schedStatus = "failed"

\* C8: a booking is attempted for exactly the pool candidates whose id is in
\* candidate_ids, in pool order; absent and duplicate ids add no booking.
C8_BookingsFollowPool ==
    /\ Len(bookings) <= Len(Requested)
    /\ \A n \in 1..Len(bookings) : bookings[n].candidate = Requested[n]
    /\ schedPc = "done" => Len(bookings) = Len(Requested)

\* candidate_ids names the second pool candidate twice, then the first, then nobody;
\* the bookings went to the first candidate, then the second.
C8_Witness ==
    /\ schedPc = "done"
    /\ Len(pool) = 2
    /\ pool[1].id # pool[2].id
    /\ candidateIds = <<pool[2].id, pool[2].id, pool[1].id>>
    /\ Len(bookings) = 2
    /\ bookings[1].candidate = pool[1]
    /\ bookings[2].candidate = pool[2]

----------------------------------------------------------------------------
(* Claims about process_resumes (SpecBatch). *)

\* The analyses made for the document at position i.
AnalysesOf(i) == SelectSeq(analyses, LAMBDA a : a.candidate_id = Uuid("candidate", i))

\* The Candidates of the result made for the document at position i.
CandidatesOf(i) ==
    SelectSeq(batchResult.candidates, LAMBDA c : c.id = Uuid("candidate", i).v)

\* The analyzer was called for the document at position i.
OracleCalled(i) == \E n \in 1..Len(oracleCalls) : oracleCalls[n].doc = i

\* Text extraction fails for the file, or the extracted text fails the validity check.
Unreadable(file) ==
    \/ ~extract_text_from_pdf(file).some
    \/ ~validate_resume(extract_text_from_pdf(file).text)

\* The positions the loop has dealt with.
Handled == 1..(fileIdx - 1)

\* C2 as stated: a document whose oracle call failed has no assessment and no
\* Candidate, and is not counted in processed.
C2_FailedOracleSkipped ==
    \A n \in 1..Len(oracleCalls) :
        oracleCalls[n].failed =>
            /\ AnalysesOf(oracleCalls[n].doc) = <<>>
            /\ batchPc = "done" => CandidatesOf(oracleCalls[n].doc) = <<>>

\* What the code does where C2 has the document skipped: every document the
\* analyzer was called for has exactly one analysis; for a failed oracle call it is
\* the default analysis (name "Unknown", the three scores 0, summary "Analysis
\* failed"), and every result process_resumes returns holds one Candidate of score 0
\* for it and counts it in processed.
C2_FailedOracleGetsDefault ==
    /\ Len(analyses) = Len(oracleCalls)
    /\ \A n \in 1..Len(oracleCalls) :
          LET doc == oracleCalls[n].doc
          IN  /\ analyses[n].candidate_id = Uuid("candidate", doc)
              /\ Len(AnalysesOf(doc)) = 1
              /\ oracleCalls[n].failed =>
                    /\ analyses[n].candidate_name = PyStr("Unknown")
                    /\ Scores(analyses[n]) = <<0, 0, 0>>
                    /\ analyses[n].summary = PyStr("Analysis failed")
              /\ batchPc = "done" =>
                    /\ Len(CandidatesOf(doc)) = 1
                    /\ oracleCalls[n].failed => CandidatesOf(doc)[1].score = 0
    /\ batchPc = "done" => batchResult.processed_resumes = Len(oracleCalls)

\* A batch of two documents returned: the oracle failed for the first and answered
\* for the second, and both are counted.
C2_Witness ==
    /\ batchPc = "done"
    /\ Len(oracleCalls) = 2
    /\ oracleCalls[1].failed
    /\ ~oracleCalls[2].failed
    /\ batchResult.processed_resumes = 2
    /\ CandidatesOf(oracleCalls[1].doc)[1].name = "Unknown"

\* C4 as stated: process_resumes never raises to its caller.
C4_ProcessNeverRaises == batchPc # "raised"

\* C9: a document whose extraction fails or whose text fails the validity check is
\* skipped without a call of the analyzer: no analysis, no Candidate, and the gap
\* between total and processed is the number of such documents; a batch of such
\* documents alone returns a result.
C9_UnreadableSkipped ==
    /\ \A i \in Handled :
          Unreadable(resumeFiles[i]) =>
              /\ ~OracleCalled(i)
              /\ AnalysesOf(i) = <<>>
              /\ batchPc = "done" => CandidatesOf(i) = <<>>
    /\ batchPc = "done" =>
          batchResult.total_resumes - batchResult.processed_resumes =
              Cardinality({i \in 1..Len(resumeFiles) : Unreadable(resumeFiles[i])})
    /\ (\A i \in 1..Len(resumeFiles) : Unreadable(resumeFiles[i])) => batchPc # "raised"

\* A batch returned with one document whose extraction failed, one whose text has
\* too few keywords, and one that was analysed.
C9_Witness ==
    /\ batchPc = "done"
    /\ Len(resumeFiles) = 3
    /\ ~extract_text_from_pdf(resumeFiles[1]).some
    /\ extract_text_from_pdf(resumeFiles[2]).some
    /\ ~validate_resume(extract_text_from_pdf(resumeFiles[2]).text)
    /\ ~Unreadable(resumeFiles[3])
    /\ batchResult.processed_resumes = 1
    /\ oracleCalls = <<[doc |-> 3, failed |-> FALSE]>>

\* C10: the result satisfies processed <= total, total being the number of input
\* documents and processed the number of Candidates returned.
C10_ProcessedAtMostTotal ==
    batchPc = "done" =>
        /\ batchResult.total_resumes = Len(resumeFiles)
        /\ batchResult.processed_resumes = Len(batchResult.candidates)
        /\ batchResult.processed_resumes <= batchResult.total_resumes

\* A batch of three documents returned two Candidates.
C10_Witness ==
    /\ batchPc = "done"
    /\ batchResult.total_resumes = 3
    /\ batchResult.processed_resumes = 2

\* The analysis the Candidate c of the result was made from.
SourceOf(c) == CHOOSE a \in {analyses[n] : n \in 1..Len(analyses)} : a.candidate_id.v = c.id

\* The position in resume_files of the document the Candidate c was made for.
DocOf(c) == c.id[2]

\* C11: the candidates list of the result is in rank order of the assessments the
\* Candidates were made from (non-increasing by overall_score, then skill_score, then
\* experience_score, ties in document order), it holds one Candidate per assessment,
\* and each Candidate's score is the overall_score of its assessment.
C11_CandidatesInRankOrder ==
    batchPc = "done" =>
        LET cs == batchResult.candidates
        IN  /\ Len(cs) = Len(analyses)
            /\ \A i \in 1..Len(cs) :
                  /\ \E n \in 1..Len(analyses) : analyses[n].candidate_id.v = cs[i].id
                  /\ cs[i].score = SourceOf(cs[i]).overall_score.v
            /\ \A i \in 1..(Len(cs) - 1) :
                  /\ ScoresNotBelow(SourceOf(cs[i]), SourceOf(cs[i + 1]))
                  /\ Scores(SourceOf(cs[i])) = Scores(SourceOf(cs[i + 1])) =>
                        DocOf(cs[i]) < DocOf(cs[i + 1])

\* A batch of three analysed documents returned: the first scored lowest, the second
\* and third tie on all three scores; the Candidates come back as second, third, first
\* and the skill scores differ from the overall scores.
C11_Witness ==
    /\ batchPc = "done"
    /\ Len(analyses) = 3
    /\ analyses[1].overall_score.v < analyses[2].overall_score.v
    /\ Scores(analyses[2]) = Scores(analyses[3])
    /\ analyses[2].skill_score.v # analyses[2].overall_score.v
    /\ DocOf(batchResult.candidates[1]) = DocOf(CandidateOf(analyses[2]))
    /\ DocOf(batchResult.candidates[2]) = DocOf(CandidateOf(analyses[3]))
    /\ DocOf(batchResult.candidates[3]) = DocOf(CandidateOf(analyses[1]))

----------------------------------------------------------------------------
(* Claims about the analyses analyze_resume returns (SpecBatch). *)

\* The analysis made from the oracle's answer for the candidate called name.
NamedAnalysis(name) ==
    CHOOSE a \in {analyses[n] : n \in 1..Len(analyses)} : a.candidate_name = PyStr(name)

HasAnalysis(name) == \E n \in 1..Len(analyses) : analyses[n].candidate_name = PyStr(name)

\* C12: in every analysis analyze_resume returned, overall_score, skill_score and
\* experience_score are present and are integers in [0,100], whatever the oracle
\* answered: values above 100, below 0, numerals in a string, missing values, values
\* int() cannot convert, or no usable answer at all.
C12_ScoresClamped ==
    \A n \in 1..Len(analyses) : \A f \in ScoreFields :
        /\ f \in DOMAIN analyses[n]
        /\ analyses[n][f].t = "int"
        /\ analyses[n][f].v >= 0
        /\ analyses[n][f].v <= 100

\* Three documents were analysed: the oracle answered 150, -5 and "85" for one,
\* no score at all for another, and a score that is no number for the third.
C12_Witness ==
    /\ Len(analyses) = 3
    /\ HasAnalysis("Cy")
    /\ Scores(NamedAnalysis("Cy")) = <<100, 0, 85>>
    /\ HasAnalysis("Flo")
    /\ Scores(NamedAnalysis("Flo")) = <<50, 50, 50>>
    /\ \E n \in 1..Len(oracleCalls) : oracleCalls[n].failed /\ Scores(analyses[n]) = <<0, 0, 0>>

\* The thirteen keys of an analysis.
AnalysisFields == DOMAIN _get_default_analysis

\* C13 as stated: in every analysis analyze_resume returned, every field is present
\* and none is null, so a field the oracle omitted or returned as null holds a string
\* or a list.
C13_NoFieldNullOrAbsent ==
    \A n \in 1..Len(analyses) : \A f \in AnalysisFields :
        /\ f \in DOMAIN analyses[n]
        /\ analyses[n][f] # PyNone

----------------------------------------------------------------------------
(* Claims about select_top_candidates (SpecTop) and categorize_candidates
   (SpecTiers). *)

\* The entries of the argument list whose overall_score reaches the threshold.
AboveThreshold ==
    SelectSeq(rankedCandidates, LAMBDA c : c.overall_score.v >= minScoreThreshold)

OverallScores(list) == [i \in 1..Len(list) |-> list[i].overall_score.v]

\* C14: for a list of assessments, a threshold and max_candidates >= 0, select_top
\* returns the first max_candidates entries (all, if there are fewer) of the
\* subsequence of entries with overall_score >= min_score_threshold, in their order;
\* scores [95,90,60,40] with max_candidates = 2 and threshold 50 give 95 and 90.
C14_SelectTopFiltersThenTruncates ==
    (toolPc = "selected" /\ IsAssessmentList(rankedCandidates) /\ maxCandidates >= 0) =>
        /\ Len(topOut) = Min2(maxCandidates, Len(AboveThreshold))
        /\ \A i \in 1..Len(topOut) : topOut[i] = AboveThreshold[i]
        /\ (/\ OverallScores(rankedCandidates) = <<95, 90, 60, 40>>
            /\ maxCandidates = 2
            /\ minScoreThreshold = 50) => OverallScores(topOut) = <<95, 90>>

\* select_top was called on scores [95,90,60,40] with max_candidates = 2 and
\* threshold 50 and returned the entries scoring 95 and 90.
C14_Witness ==
    /\ toolPc = "selected"
    /\ IsAssessmentList(rankedCandidates)
    /\ OverallScores(rankedCandidates) = <<95, 90, 60, 40>>
    /\ maxCandidates = 2
    /\ minScoreThreshold = 50
    /\ topOut = SubSeq(rankedCandidates, 1, 2)

TierNames == {"top_tier", "mid_tier", "low_tier", "not_recommended"}

\* How often x occurs in list.
Occurrences(list, x) == Len(SelectSeq(list, LAMBDA y : y = x))

\* The band of scores the tier is documented with.
Band(tier) ==
    CASE tier = "top_tier" -> 80..100
      [] tier = "mid_tier" -> 60..79
      [] tier = "low_tier" -> 40..59
      [] tier = "not_recommended" -> 0..39

\* C15: categorize returns the four tiers; every candidate of the input is in exactly
\* one of them, as often as it is in the input, so the tier sizes sum to the input
\* length (the empty input gives four empty tiers); a candidate whose overall_score s
\* is an integer in [0,100] is in top_tier iff 80 <= s <= 100, mid_tier iff
\* 60 <= s <= 79, low_tier iff 40 <= s <= 59, not_recommended iff 0 <= s <= 39.
C15_TiersPartition ==
    toolPc = "categorized" =>
        /\ DOMAIN tiersOut = TierNames
        /\ Len(tiersOut.top_tier) + Len(tiersOut.mid_tier) + Len(tiersOut.low_tier)
              + Len(tiersOut.not_recommended) = Len(rankedCandidates)
        /\ \A i \in 1..Len(rankedCandidates) :
              LET x == rankedCandidates[i]
              IN  /\ Cardinality({t \in TierNames : Occurrences(tiersOut[t], x) > 0}) = 1
                  /\ \E t \in TierNames :
                        Occurrences(tiersOut[t], x) = Occurrences(rankedCandidates, x)
                  /\ (IsAssessment(x) /\ x.overall_score.v \in 0..100) =>
                        \A t \in TierNames :
                            Occurrences(tiersOut[t], x) > 0 <=> x.overall_score.v \in Band(t)

\* categorize was called on three candidates scoring 80, 79 and 39, which sit at the
\* ends of three bands: one went to top_tier, one to mid_tier, one to not_recommended.
C15_Witness ==
    /\ toolPc = "categorized"
    /\ IsAssessmentList(rankedCandidates)
    /\ OverallScores(rankedCandidates) = <<80, 79, 39>>
    /\ OverallScores(tiersOut.top_tier) = <<80>>
    /\ OverallScores(tiersOut.mid_tier) = <<79>>
    /\ tiersOut.low_tier = <<>>
    /\ OverallScores(tiersOut.not_recommended) = <<39>>

----------------------------------------------------------------------------
(* Claims about send_confirmations (SpecSend). *)

\* Every draft of the call carries a recipient.
DraftsHaveRecipient == \A i \in 1..Len(drafts) : "to_email" \in DOMAIN drafts[i]

\* The positions of the drafts whose send returned true / did not, in order.
SentPositions == SelectSeq([i \in 1..Len(mailerCalls) |-> i],
                           LAMBDA i : mailerCalls[i].result = "true")
FailedPositions == SelectSeq([i \in 1..Len(mailerCalls) |-> i],
                             LAMBDA i : mailerCalls[i].result # "true")

\* C16: for every list of drafts that carry a recipient and every outcome of each
\* send (true, false, or an exception), send_confirmations returns status
\* "completed" with sent_count + failed_count = the number of drafts; the sent list
\* holds the recipients of exactly the drafts whose send returned true, the failed
\* list those of all others, both in draft order, and the mailer was called for every
\* draft, whatever happened to the drafts before it.
C16_EveryDraftCounted ==
    /\ DraftsHaveRecipient => sendPc # "raised"
    /\ sendPc = "done" =>
          /\ sendResult.status = "completed"
          /\ sendResult.sent_count + sendResult.failed_count = Len(drafts)
          /\ Len(mailerCalls) = Len(drafts)
          /\ sendResult.sent_emails =
                [k \in 1..Len(SentPositions) |-> drafts[SentPositions[k]].to_email]
          /\ sendResult.failed_emails =
                [k \in 1..Len(FailedPositions) |-> drafts[FailedPositions[k]].to_email]
          /\ sendResult.sent_count = Len(sendResult.sent_emails)
          /\ sendResult.failed_count = Len(sendResult.failed_emails)

\* A call with three drafts returned: the first send raised, the second returned
\* false, the third returned true.
C16_Witness ==
    /\ sendPc = "done"
    /\ Len(drafts) = 3
    /\ mailerCalls[1].result = "raise"
    /\ mailerCalls[2].result = "false"
    /\ mailerCalls[3].result = "true"
    /\ sendResult.sent_count = 1
    /\ sendResult.failed_count = 2
    /\ sendResult.sent_emails = <<drafts[3].to_email>>
    /\ sendResult.failed_emails = <<drafts[1].to_email, drafts[2].to_email>>
    /\ drafts[1].to_email # drafts[2].to_email
    /\ drafts[2].to_email # drafts[3].to_email

----------------------------------------------------------------------------
(* Claims about all operations (Spec). *)

\* C17: within one invocation nothing is retried: the analyzer is called at most
\* once per document, a booking is requested at most once per selected candidate and
\* send_email is called at most once per draft, whatever the call returned; the calls
\* go through the documents, the selected candidates and the drafts in order.
C17_NoRetries ==
    /\ Len(oracleCalls) <= Len(resumeFiles)
    /\ \A m, n \in 1..Len(oracleCalls) : m < n => oracleCalls[m].doc < oracleCalls[n].doc
    /\ Len(bookings) <= Len(selected)
    /\ \A n \in 1..Len(bookings) : bookings[n].candidate = selected[n]
    /\ Len(mailerCalls) <= Len(drafts)
    /\ \A n \in 1..Len(mailerCalls) : mailerCalls[n].draft = n

\* One of the three operations has ended after a call that failed was followed by
\* the call for the next item: an oracle failure, a failed booking or a failed send.
C17_Witness ==
    \/ /\ batchPc = "done"
       /\ Len(oracleCalls) = 2
       /\ oracleCalls[1].failed
    \/ /\ schedPc = "done"
       /\ Len(bookings) = 2
       /\ bookings[1].outcome = "api_error"
    \/ /\ sendPc = "done"
       /\ Len(mailerCalls) = 2
       /\ mailerCalls[1].result = "false"

----------------------------------------------------------------------------
(* Claims about find_available_slots (SpecAvail). *)

\* The start of the slot at the hour of the day, both counted from the epoch.
SlotAt(day, hour) == day * MinutesPerDay + hour * MinutesPerHour

\* The calendar holds no event that overlaps [slot_start, slot_start + duration).
NothingBooked(slot_start) ==
    \A k \in 1..Len(calendar) :
        ~(calendar[k].end > slot_start /\ calendar[k].start < slot_start + durationMinutes)

\* The number of calendar events that overlap [time_min, time_max).
BookedIn(time_min, time_max) ==
    Cardinality({k \in 1..Len(calendar) :
                    calendar[k].end > time_min /\ calendar[k].start < time_max})

NoQueryFailed == \A n \in 1..Len(slotQueries) : ~slotQueries[n].failed

InSlots(slots, slot_start) == \E k \in 1..Len(slots) : slots[k] = slot_start

\* The call got past authentication and returned.
SweepReturned == availPc = "done" /\ service

\* C18 as stated: for start_date <= end_date, whatever their times of day, every
\* free working-hours slot on a weekday from start_date's day through end_date's day,
\* the last day included, is in the result (no calendar query having failed).
C18_EveryDayOfRangeSwept ==
    (SweepReturned /\ availStart <= availEnd /\ NoQueryFailed) =>
        \A day \in DayOf(availStart)..DayOf(availEnd) :
            \A hour \in workingHours[1]..(workingHours[2] - 1) :
                (day % 7 < 5 /\ NothingBooked(SlotAt(day, hour))) =>
                    InSlots(availResult, SlotAt(day, hour))

\* The days the while loop reaches: start_date's day and every later day on which
\* start_date's time of day is not after end_date.
Reached(day) ==
    /\ day >= DayOf(availStart)
    /\ availStart + (day - DayOf(availStart)) * MinutesPerDay <= availEnd

\* C19: a slot is reported if and only if a calendar query was made for it and
\* returned zero events.  Every query is for [slot_start, slot_start +
\* duration_minutes) of an hour-aligned slot (minute 0, hour in [start_hour,
\* end_hour)) on a weekday of the range and tells how many calendar events overlap
\* it; every such slot on a weekday the sweep has reached is queried; a slot whose
\* query failed or found an event is not reported.
C19_ReportedIffQueriedFree ==
    /\ \A n \in 1..Len(slotQueries) :
          LET q == slotQueries[n]
              hour == (q.time_min % MinutesPerDay) \div MinutesPerHour
          IN  /\ q.time_min % MinutesPerHour = 0
              /\ hour >= workingHours[1]
              /\ hour < workingHours[2]
              /\ DayOf(q.time_min) % 7 < 5
              /\ DayOf(q.time_min) \in DayOf(availStart)..DayOf(availEnd)
              /\ q.time_max = q.time_min + durationMinutes
              /\ ~q.failed => q.events = BookedIn(q.time_min, q.time_max)
              /\ InSlots(availableSlots, q.time_min) <=> (~q.failed /\ q.events = 0)
    /\ \A k \in 1..Len(availableSlots) :
          \E n \in 1..Len(slotQueries) : slotQueries[n].time_min = availableSlots[k]
    /\ availPc = "done" =>
          /\ availResult = availableSlots
          /\ ~service => slotQueries = <<>>
          /\ service =>
                \A day \in DayOf(availStart)..DayOf(availEnd) :
                    \A hour \in workingHours[1]..(workingHours[2] - 1) :
                        (day % 7 < 5 /\ Reached(day)) =>
                            \E n \in 1..Len(slotQueries) :
                                slotQueries[n].time_min = SlotAt(day, hour)

\* A sweep returned after one query failed, one found an event and one found none:
\* only the slot of the last is reported.
C19_Witness ==
    /\ SweepReturned
    /\ \E n \in 1..Len(slotQueries) : slotQueries[n].failed
    /\ \E n \in 1..Len(slotQueries) : ~slotQueries[n].failed /\ slotQueries[n].events > 0
    /\ Len(availResult) = 1
    /\ \E n \in 1..Len(slotQueries) :
          /\ slotQueries[n].time_min = availResult[1]
          /\ ~slotQueries[n].failed
          /\ slotQueries[n].events = 0

\* C20: no reported slot falls on a Saturday or a Sunday, whatever the range, the
\* working hours and the calendar; a range within one Saturday gives the empty list.
C20_NoWeekendSlots ==
    /\ \A k \in 1..Len(availableSlots) : DayOf(availableSlots[k]) % 7 \notin {5, 6}
    /\ \A k \in 1..Len(availResult) : DayOf(availResult[k]) % 7 \notin {5, 6}
    /\ (availPc = "done" /\ DayOf(availStart) = DayOf(availEnd)
            /\ DayOf(availStart) % 7 = 5) => availResult = <<>>

\* A sweep from a Friday to the Sunday after it returned: the loop went through all
\* three days and reported the two free slots of the Friday only.
C20_Witness ==
    /\ SweepReturned
    /\ DayOf(availStart) % 7 = 4
    /\ DayOf(availEnd) = DayOf(availStart) + 2
    /\ currentDate > availEnd
    /\ DayOf(currentDate) >= DayOf(availStart) + 3
    /\ Len(availResult) = 2
    /\ \A k \in 1..Len(availResult) : DayOf(availResult[k]) = DayOf(availStart)

----------------------------------------------------------------------------
(* C21 *)

StrictlyIncreasing(slots) == \A k \in 1..(Len(slots) - 1) : slots[k] < slots[k + 1]

\* C21: the list find_available_slots builds, and the list it returns, is strictly
\* increasing in time (day ascending, then hour ascending); so no slot occurs in it
\* twice.
C21_SlotsStrictlyIncreasing ==
    /\ StrictlyIncreasing(availableSlots)
    /\ StrictlyIncreasing(availResult)
    /\ \A j \in 1..Len(availResult), k \in 1..Len(availResult) :
          availResult[j] = availResult[k] => j = k

\* A sweep returned at least three slots that lie on two different days.
C21_Witness ==
    /\ SweepReturned
    /\ Len(availResult) >= 3
    /\ DayOf(availResult[1]) # DayOf(availResult[Len(availResult)])
    /\ DayOf(availResult[1]) = DayOf(availResult[2])

----------------------------------------------------------------------------
(* C22 *)

\* The fields of the EmailDraft model of schemas.py, all of them required.
EmailDraftFields == {"to_email", "to_name", "subject", "body", "interview_date", "interview_link"}

\* C22: every draft of select_and_schedule_interviews carries the six fields of
\* EmailDraft, with interview_date and interview_link equal to those of the scheduled
\* entry at the same position.
C22_DraftsCarrySixFields ==
    \A k \in 1..Len(emailDrafts) :
        /\ DOMAIN emailDrafts[k] = EmailDraftFields
        /\ k <= Len(scheduled)
        /\ emailDrafts[k].interview_date = scheduled[k].interview_date
        /\ emailDrafts[k].interview_link = scheduled[k].interview_link

----------------------------------------------------------------------------
(* C23 *)

\* The start times of the queries that did not fail and met no event, in order.
FreeOf(queries) ==
    LET free == SelectSeq(queries, LAMBDA q : ~q.failed /\ q.events = 0)
    IN  [k \in 1..Len(free) |-> free[k].time_min]

\* What find_available_slots returns on an agent that served no call before, for
\* the same arguments and the same responses of the credentials and the calendar.
FreshAgentResult == IF credentialsOk THEN FreeOf(slotQueries) ELSE <<>>

\* C23 as stated: the result of find_available_slots is the one an agent without any
\* earlier invocation gives for the same call and the same collaborator state.
C23_NoHiddenState ==
    availPc = "done" => availResult = FreshAgentResult

\* C23, amended: the only state kept between calls is the calendar service, set by
\* the first successful authentication and never unset.  The result is that of the
\* calendar queries of the call when the service is set, and [] otherwise; the
\* service is set after a call exactly when the credentials were accepted during it
\* or it was set by an earlier call; the first call on an agent gives the result of
\* a fresh agent.
C23_OnlyServiceKept ==
    /\ availPc = "done" =>
          /\ availResult = (IF service THEN FreeOf(slotQueries) ELSE <<>>)
          /\ credentialsOk => service
          /\ (service /\ ~credentialsOk) => calls >= 1
          /\ calls = 0 => availResult = FreshAgentResult
    /\ (calls = 0 /\ availPc = "idle") => ~service

\* A later call on an agent that authenticated before returns slots although the
\* credentials are not accepted any more.
C23_Witness ==
    /\ availPc = "done"
    /\ calls >= 1
    /\ ~credentialsOk
    /\ service
    /\ Len(availResult) >= 1

----------------------------------------------------------------------------
(* C24 *)

\* The number of submitted candidates whose score lies in [low, high].
SubmittedIn(low, high) ==
    Cardinality({i \in 1..Len(epCandidates) :
                    epCandidates[i].score >= low /\ epCandidates[i].score <= high})

\* C24: /rank-candidates returns the submitted candidates ordered by score
\* descending, and the tier counts and the top-3 scores of the summary are those of
\* the submitted scores.
C24_EndpointRanksByScore ==
    epPc = "done" =>
        /\ Len(epRanked) = Len(epCandidates)
        /\ \A k \in 1..(Len(epRanked) - 1) : epRanked[k].score.v >= epRanked[k + 1].score.v
        /\ Len(epCandidates) > 0 =>
              /\ epSummary.top_tier = SubmittedIn(80, 100)
              /\ epSummary.mid_tier = SubmittedIn(60, 79)
              /\ epSummary.low_tier = SubmittedIn(40, 59)
              /\ epSummary.not_recommended = SubmittedIn(0, 39)
              /\ \A k \in 1..Len(epSummary.top3) :
                    epSummary.top3[k][2] = epRanked[k].score

----------------------------------------------------------------------------
(* C25 *)

\* The value of the score field f of x, 0 when x has no such field.
ScoreOrZero(x, f) == IF f \in DOMAIN x THEN x[f].v ELSE 0

\* Every score field an element of the list has is a number.
ScoresNumeric(list) ==
    \A i \in 1..Len(list) : \A f \in ScoreFields \cap DOMAIN list[i] : list[i][f].t = "int"

\* a comes before b, or ties with it, by overall, skill and experience score
\* descending, a missing field counting as 0.
NotBehind(a, b) ==
    \/ ScoreOrZero(a, "overall_score") > ScoreOrZero(b, "overall_score")
    \/ /\ ScoreOrZero(a, "overall_score") = ScoreOrZero(b, "overall_score")
       /\ \/ ScoreOrZero(a, "skill_score") > ScoreOrZero(b, "skill_score")
          \/ /\ ScoreOrZero(a, "skill_score") = ScoreOrZero(b, "skill_score")
             /\ ScoreOrZero(a, "experience_score") >= ScoreOrZero(b, "experience_score")

\* Every element of the output is an element of the input, with the same fields and
\* values; when the scores present are numbers the output is ordered with a missing
\* score counting as 0.
OutputKeepsElements ==
    /\ \A k \in 1..Len(rankOut) : \E i \in 1..Len(rankIn) : rankOut[k] = rankIn[i]
    /\ ScoresNumeric(rankIn) =>
          \A k \in 1..(Len(rankOut) - 1) : NotBehind(rankOut[k], rankOut[k + 1])

\* C25: rank_candidates leaves its input unchanged (same order, same length, no
\* field added or altered), and an assessment lacking a score field is ordered as
\* if the field were 0 and still lacks it in the output.
C25_RankLeavesInputUnchanged ==
    [][(rankPc = "start" /\ rankPc' = "done") =>
          (rankIn' = rankIn /\ OutputKeepsElements')]_vars

\* A call on a list the sort reorders, one of whose assessments has no
\* overall_score: it is in the output, behind an assessment of positive score, and
\* still has no overall_score.
C25_Witness ==
    /\ rankPc = "done"
    /\ rankOut # rankIn
    /\ ScoresNumeric(rankIn)
    /\ \E k \in 2..Len(rankOut) :
          /\ "overall_score" \notin DOMAIN rankOut[k]
          /\ ScoreOrZero(rankOut[k - 1], "overall_score") > 0
    /\ "overall_score" \notin DOMAIN rankIn[1]

----------------------------------------------------------------------------
(* C26 *)

\* The gate as stated, on the text of the document (pdfplumber's, or PyPDF2's when
\* pdfplumber's is too short): at least 100 non-whitespace characters and at least
\* 2 keywords.
GateAsStated(file) ==
    LET text == IF file.pdfplumber.nonWs >= 100 THEN file.pdfplumber ELSE file.pypdf2
    IN  text.nonWs >= 100 /\ text.keywords >= 2

\* The gate on the length after strip(): more than 100 characters, leading and
\* trailing whitespace not counted, and at least 2 keywords.
GateOnStrippedLength(file) ==
    LET text == IF file.pdfplumber.stripLen > 100 THEN file.pdfplumber ELSE file.pypdf2
    IN  text.stripLen > 100 /\ text.keywords >= 2

\* C26 as stated: a document is passed on to the analyzer if and only if its text
\* has at least 100 non-whitespace characters and at least 2 of the keywords.
C26_GateOnNonWhitespace ==
    \A i \in Handled : OracleCalled(i) <=> GateAsStated(resumeFiles[i])

\* C26, amended: a document is passed on to the analyzer if and only if its
\* extracted text has more than 100 characters after strip() (interior whitespace
\* counted) and at least 2 of the keywords.
C26_GateOnStrippedLength ==
    \A i \in Handled : OracleCalled(i) <=> GateOnStrippedLength(resumeFiles[i])

\* A batch returned in which a text of exactly 100 characters with 2 keywords was
\* skipped and a text of 120 characters, 90 of them no whitespace, was analysed.
C26_Witness ==
    /\ batchPc = "done"
    /\ \E i \in Handled :
          /\ resumeFiles[i].pdfplumber = Text(100, 100, 2)
          /\ ~OracleCalled(i)
    /\ \E i \in Handled :
          /\ resumeFiles[i].pdfplumber = Text(120, 90, 2)
          /\ OracleCalled(i)

----------------------------------------------------------------------------
(* C27 *)

\* The requests of the call that inserted an event into the calendar.
EventsCreated == SelectSeq(bookings, LAMBDA b : b.outcome \in {"created", "created_nolink"})

\* C27: after select_and_schedule_interviews, the number of calendar events created
\* during the call is the number of entries of scheduled_interviews, and each event
\* belongs to one scheduled candidate, also when the calendar created the event and
\* returned an empty or missing link.
C27_EventsMatchScheduled ==
    schedPc = "done" =>
        /\ Len(EventsCreated) = Len(scheduled)
        /\ Len(calendar) = Len(scheduled)
        /\ \A k \in 1..Len(calendar) :
              \E n \in 1..Len(scheduled) : scheduled[n].candidate_name = calendar[k].summary

----------------------------------------------------------------------------
(* C28 *)

\* The intervals [start, end) of the events a and b overlap.
Overlap(a, b) == a.start < b.end /\ b.start < a.end

\* No two events of the calendar overlap.
NoOverlappingEvents(events) ==
    \A j \in 1..Len(events), k \in 1..Len(events) : j < k => ~Overlap(events[j], events[k])

\* The calendar holds no event in [interview_date, interview_date + duration).
FreeAt(events, interview_date) ==
    \A k \in 1..Len(events) :
        ~(events[k].start < interview_date + InterviewDurationMinutes
          /\ interview_date < events[k].end)

\* C28: over any sequence of calls against the same calendar, a booking is never
\* requested at a time the calendar already holds an event, and no two events the
\* calls created overlap.
C28_NoDoubleBooking ==
    [][Len(bookings') = Len(bookings) + 1 =>
          /\ FreeAt(calendar, bookings'[Len(bookings')].interview_date)
          /\ NoOverlappingEvents(calendar')]_vars

----------------------------------------------------------------------------
(* C29 *)

\* C29: every slot find_available_slots returns starts no earlier than start_date
\* and no later than end_date, whatever their times of day.
C29_SlotsWithinRange ==
    availPc = "done" =>
        \A k \in 1..Len(availResult) :
            availStart <= availResult[k] /\ availResult[k] <= availEnd

----------------------------------------------------------------------------
(* C30 *)

\* The lists a and b hold the same elements the same number of times.
Permutation(a, b) ==
    /\ Len(a) = Len(b)
    /\ \A i \in 1..Len(a) : Occurrences(a, a[i]) = Occurrences(b, a[i])

\* C30: the list rank_candidates returns is a permutation of its input (nothing
\* dropped or duplicated), and ranking it again returns it unchanged, also when the
\* sort failed on a score that is no number and the input was returned as it is.
C30_RankPermutationIdempotent ==
    rankPc = "done" =>
        /\ Permutation(rankIn, rankOut)
        /\ rank_candidates(rankOut) = rankOut
        /\ (\E i \in 1..Len(rankIn) : ~KeyDefined(rankIn[i])) => rankOut = rankIn

\* Three assessments, one of them twice, were ranked into another order.
C30_Witness ==
    /\ rankPc = "done"
    /\ Len(rankIn) = 3
    /\ rankOut # rankIn
    /\ \E i \in 1..3 : Occurrences(rankIn, rankIn[i]) = 2
    /\ rank_candidates(rankOut) = rankOut

====
